---- MODULE Spec2Model ----
(***************************************************************************)
(* State machine of the chattr backend actor (src/backend/main.mo): the    *)
(* chatroom table, the per-room message lists, the per-room presence lists *)
(* and the per-message reaction lists, with one action per public update   *)
(* method and one operator per public query.                               *)
(*                                                                         *)
(* A Motoko actor runs one message at a time and none of the modelled      *)
(* methods contains an await, so every method is a single step.  A trap    *)
(* (Debug.trap) rolls the state back: only the outcome of the call is      *)
(* recorded.                                                               *)
(*                                                                         *)
(* Encodings: an option ?T is a sequence of length 0 (null) or 1 (?x); a   *)
(* List.List is a sequence whose first element is the head; a Text that    *)
(* the code inspects (size, lowercase, substring) is a sequence of         *)
(* one-character strings, a Text that is only compared is a string; an     *)
(* OrderedMap.Map<Nat, V> is a function on its key set.  Time is counted   *)
(* in units of 1_000_000_000 ns (seconds).                                 *)
(***************************************************************************)
EXTENDS Integers, Sequences, FiniteSets, TLC

VARIABLES nextMessageId, nextChatroomId, chatrooms, messages, activeUsers,
          reactions, now, last

vars == <<nextMessageId, nextChatroomId, chatrooms, messages, activeUsers,
          reactions, now, last>>

(* ------------------------------ bounds -------------------------------- *)

(* Per specification: the rooms created, the messages stored (seed messages *)
(* included), the views counted per room, and the last clock value.        *)
MsgMaxRooms == 2
MsgMaxMessages == 3
MsgMaxTime == 61
FullMaxRooms == 2
FullMaxMessages == 2
FullMaxViews == 1
FullMaxTime == 61
PresMaxMessages == 3
PresMaxViews == 2
PresMaxTime == 61
RoomMaxRooms == 2
RoomMaxMessages == 2
RoomMaxViews == 1
RoomMaxTime == 61
ThreadMaxMessages == 6
ThreadMaxTime == 1
PinMaxMessages == 3
PinMaxViews == 1
PinMaxTime == 61
ScenMaxRooms == 1
ScenMaxMessages == 2
ScenMaxViews == 1
ScenMaxTime == 61
FeedMaxRooms == 2
FeedMaxMessages == 3
PreviewMaxMessages == 4
RewriteMaxMessages == 4
RewriteMaxTime == 1
NameMaxRooms == 2
NameMaxMessages == 3
SweepMaxMessages == 3
SweepMaxViews == 2
SweepMaxTime == 61
IsoMaxRooms == 2
IsoMaxMessages == 3
IsoMaxViews == 1
IsoMaxTime == 61
ExpMaxMessages == 3
ExpMaxViews == 1
ExpLastTouch == 61

(* ------------------------------ options ------------------------------- *)

None == <<>>
Some(x) == <<x>>
IsSome(o) == Len(o) = 1
TheVal(o) == o[1]

(* --------------------------- mo:base/List ----------------------------- *)

ListNil == <<>>
ListPush(x, l) == <<x>> \o l
ListSize(l) == Len(l)
ListReverse(l) == [i \in 1..Len(l) |-> l[Len(l) + 1 - i]]
ListToArray(l) == l

(* --------------------------- mo:base/Text ----------------------------- *)

UpperChars == <<"A", "B", "C", "D", "E", "F", "G", "H", "I", "J", "K", "L", "M",
                "N", "O", "P", "Q", "R", "S", "T", "U", "V", "W", "X", "Y", "Z">>
LowerChars == <<"a", "b", "c", "d", "e", "f", "g", "h", "i", "j", "k", "l", "m",
                "n", "o", "p", "q", "r", "s", "t", "u", "v", "w", "x", "y", "z">>
LowerOf ==
    [c \in {UpperChars[i] : i \in 1..Len(UpperChars)} |->
        LowerChars[CHOOSE i \in 1..Len(UpperChars) : UpperChars[i] = c]]
CharToLower(c) == IF c \in DOMAIN LowerOf THEN LowerOf[c] ELSE c
TextSize(t) == Len(t)
TextToLowercase(t) == [i \in 1..Len(t) |-> CharToLower(t[i])]
TextContains(t, p) ==
    \E i \in 0..(Len(t) - Len(p)) : SubSeq(t, i + 1, i + Len(p)) = p
TextEndsWith(t, p) ==
    Len(p) <= Len(t) /\ SubSeq(t, Len(t) - Len(p) + 1, Len(t)) = p

(* ------------------------- mo:base/OrderedMap ------------------------- *)

natMapEmpty == [k \in {} |-> 0]
natMapGet(m, k) == IF k \in DOMAIN m THEN Some(m[k]) ELSE None
natMapPut(m, k, v) == [x \in (DOMAIN m) \cup {k} |-> IF x = k THEN v ELSE m[x]]
natMapSize(m) == Cardinality(DOMAIN m)
natMapKeys(m) ==
    LET RECURSIVE asc(_)
        asc(S) == IF S = {} THEN <<>>
                  ELSE LET lo == CHOOSE x \in S : \A y \in S : x <= y
                       IN <<lo>> \o asc(S \ {lo})
    IN asc(DOMAIN m)
natMapVals(m) == LET ks == natMapKeys(m) IN [i \in 1..Len(ks) |-> m[ks[i]]]

(* ----------------------- media validation (185-225) ------------------- *)

isValidImageUrl(url) ==
    IF TextContains(url, <<"b", "l", "o", "b", "-", "s", "t", "o", "r", "a", "g", "e">>)
    THEN TRUE
    ELSE \/ TextEndsWith(url, <<".", "j", "p", "g">>)
         \/ TextEndsWith(url, <<".", "j", "p", "e", "g">>)
         \/ TextEndsWith(url, <<".", "p", "n", "g">>)
         \/ TextEndsWith(url, <<".", "g", "i", "f">>)
isValidYouTubeUrl(url) ==
    \/ TextContains(url, <<"y", "o", "u", "t", "u", "b", "e", ".", "c", "o", "m">>)
    \/ TextContains(url, <<"y", "o", "u", "t", "u", ".", "b", "e">>)
isValidTwitchUrl(url) ==
    \/ TextContains(url, <<"t", "w", "i", "t", "c", "h", ".", "t", "v">>)
    \/ TextContains(url, <<"c", "l", "i", "p", "s", ".", "t", "w", "i", "t", "c", "h", ".", "t", "v">>)
isValidTwitterUrl(url) ==
    \/ TextContains(url, <<"t", "w", "i", "t", "t", "e", "r", ".", "c", "o", "m">>)
    \/ TextContains(url, <<"x", ".", "c", "o", "m">>)
validateMediaUrl(url, mediaType) ==
    LET lowerUrl == TextToLowercase(url)
    IN CASE mediaType = "image" -> isValidImageUrl(lowerUrl)
         [] mediaType = "youtube" -> isValidYouTubeUrl(lowerUrl)
         [] mediaType = "twitch" -> isValidTwitchUrl(lowerUrl)
         [] mediaType = "twitter" -> isValidTwitterUrl(lowerUrl)
         [] OTHER -> FALSE

(* ------------------------------ outcomes ------------------------------ *)

Ok == "ok"
TrapEmptyTopic == "Topic and description cannot be empty"
TrapNoMediaUrl == "Media URL is required"
TrapNoCategory == "Category is required"
TrapInvalidMedia == "Invalid media URL format"
TrapEmptyContent == "Message content cannot be empty"
TrapNoChatroom == "Chatroom does not exist"
TrapUnauthorized == "Unauthorized"

(* The last call: its method, its outcome (Ok or the trap), the value it  *)
(* returned and the arguments that the properties read.                   *)
Outcome(op, err, ret, args) == [op |-> op, err |-> err, ret |-> ret, args |-> args]

(* ------------------------------- state -------------------------------- *)

Init ==
    /\ nextMessageId = 0
    /\ nextChatroomId = 0
    /\ chatrooms = natMapEmpty
    /\ messages = natMapEmpty
    /\ activeUsers = natMapEmpty
    /\ reactions = natMapEmpty
    /\ now = 0
    /\ last = Outcome("init", Ok, None, <<>>)

(* Time.now(): the replica's clock, which never runs backwards. *)
Tick(steps, maxTime) ==
    /\ \E d \in steps :
        /\ now + d <= maxTime
        /\ now' = now + d
    /\ last' = Outcome("tick", Ok, None, <<>>)
    /\ UNCHANGED <<nextMessageId, nextChatroomId, chatrooms, messages,
                   activeUsers, reactions>>

(* --------------------------- createChatroom --------------------------- *)

seedContent ==
    <<"M", "e", "d", "i", "a", " ", "c", "o", "n", "t", "e", "n", "t", " ",
      "p", "o", "s", "t", "e", "d", " ", "b", "y", " ", "c", "r", "e", "a", "t", "o", "r">>

(* The chatroom record and the seed message built by createChatroom, given *)
(* the values of nextChatroomId, nextMessageId and Time.now() it reads.    *)
(* Mutant: the chatroom record carries the id after the increment. *)
newChatroomNextId(id, topic, description, mediaUrl, mediaType, category, createdAt) ==
    [id |-> id + 1, topic |-> topic, description |-> description,
     mediaUrl |-> mediaUrl, mediaType |-> mediaType, createdAt |-> createdAt,
     messageCount |-> 1, viewCount |-> 0, pinnedVideoId |-> None,
     category |-> category]

(* Mutant: the seed message is not counted. *)
newChatroomCountZero(id, topic, description, mediaUrl, mediaType, category, createdAt) ==
    [id |-> id, topic |-> topic, description |-> description,
     mediaUrl |-> mediaUrl, mediaType |-> mediaType, createdAt |-> createdAt,
     messageCount |-> 0, viewCount |-> 0, pinnedVideoId |-> None,
     category |-> category]

newChatroom(id, topic, description, mediaUrl, mediaType, category, createdAt) ==
    [id |-> id, topic |-> topic, description |-> description,
     mediaUrl |-> mediaUrl, mediaType |-> mediaType, createdAt |-> createdAt,
     messageCount |-> 1, viewCount |-> 0, pinnedVideoId |-> None,
     category |-> category]

(* Mutant: the seed message takes the chatroom id as its message id. *)
firstMessageRoomId(id, chatroomId, mediaUrl, mediaType, timestamp) ==
    [id |-> chatroomId, content |-> seedContent, timestamp |-> timestamp,
     sender |-> "Creator", chatroomId |-> chatroomId,
     mediaUrl |-> Some(mediaUrl), mediaType |-> Some(mediaType),
     avatarUrl |-> None, senderId |-> "creator", replyToMessageId |-> None]

(* Mutant: the seed message carries no media. *)
firstMessageNoMedia(id, chatroomId, mediaUrl, mediaType, timestamp) ==
    [id |-> id, content |-> seedContent, timestamp |-> timestamp,
     sender |-> "Creator", chatroomId |-> chatroomId,
     mediaUrl |-> None, mediaType |-> None,
     avatarUrl |-> None, senderId |-> "creator", replyToMessageId |-> None]

firstMessage(id, chatroomId, mediaUrl, mediaType, timestamp) ==
    [id |-> id, content |-> seedContent, timestamp |-> timestamp,
     sender |-> "Creator", chatroomId |-> chatroomId,
     mediaUrl |-> Some(mediaUrl), mediaType |-> Some(mediaType),
     avatarUrl |-> None, senderId |-> "creator", replyToMessageId |-> None]

(* Mutant: the description is not looked at. *)
createChatroomTrapNoDescription(topic, description, mediaUrl, mediaType, category) ==
    IF TextSize(topic) = 0 THEN TrapEmptyTopic
    ELSE IF TextSize(mediaUrl) = 0 THEN TrapNoMediaUrl
    ELSE IF TextSize(category) = 0 THEN TrapNoCategory
    ELSE IF ~validateMediaUrl(mediaUrl, mediaType) THEN TrapInvalidMedia
    ELSE Ok

createChatroomTrap(topic, description, mediaUrl, mediaType, category) ==
    IF TextSize(topic) = 0 \/ TextSize(description) = 0 THEN TrapEmptyTopic
    ELSE IF TextSize(mediaUrl) = 0 THEN TrapNoMediaUrl
    ELSE IF TextSize(category) = 0 THEN TrapNoCategory
    ELSE IF ~validateMediaUrl(mediaUrl, mediaType) THEN TrapInvalidMedia
    ELSE Ok

createChatroom(topic, description, mediaUrl, mediaType, category) ==
    LET trap == createChatroomTrap(topic, description, mediaUrl, mediaType, category)
        chatroom == newChatroom(nextChatroomId, topic, description, mediaUrl,
                                mediaType, category, now)
    IN IF trap # Ok
       THEN /\ last' = Outcome("createChatroom", trap, None,
                            <<topic, description, mediaUrl, mediaType, category>>)
            /\ UNCHANGED <<nextMessageId, nextChatroomId, chatrooms, messages,
                           activeUsers, reactions, now>>
       ELSE /\ chatrooms' = natMapPut(chatrooms, nextChatroomId, chatroom)
            /\ messages' = natMapPut(natMapPut(messages, nextChatroomId, ListNil),
                                     nextChatroomId,
                                     ListPush(firstMessage(nextMessageId, nextChatroomId,
                                                           mediaUrl, mediaType, now),
                                              ListNil))
            /\ nextMessageId' = nextMessageId + 1
            /\ nextChatroomId' = nextChatroomId + 1
            /\ last' = Outcome("createChatroom", Ok, Some(chatroom.id),
                            <<topic, description, mediaUrl, mediaType, category>>)
            /\ UNCHANGED <<activeUsers, reactions, now>>

(* ----------------------------- presence ------------------------------- *)

activeThreshold == 60

activeUsersForRoom(chatroomId) ==
    IF IsSome(natMapGet(activeUsers, chatroomId))
    THEN TheVal(natMapGet(activeUsers, chatroomId))
    ELSE ListNil

IntAbs(i) == IF i < 0 THEN -i ELSE i

(* Mutant: a record exactly activeThreshold old is taken for stale. *)
isActiveStrict(currentTime, user) ==
    IntAbs(currentTime - user.lastActive) < activeThreshold

isActive(currentTime, user) ==
    IntAbs(currentTime - user.lastActive) <= activeThreshold

(* Mutant: the old record of the identity is not filtered out. *)
updatedActiveUsersKeepOld(users, userId, currentTime) ==
    ListPush([userId |-> userId, lastActive |-> currentTime], users)

updatedActiveUsers(users, userId, currentTime) ==
    ListPush([userId |-> userId, lastActive |-> currentTime],
             SelectSeq(users, LAMBDA user : user.userId # userId))

(* ------------------------------ sendMessage --------------------------- *)

newMessage(content, sender, chatroomId, mediaUrl, mediaType, avatarUrl, senderId, replyToMessageId) ==
    [id |-> nextMessageId, content |-> content, timestamp |-> now,
     sender |-> sender, chatroomId |-> chatroomId, mediaUrl |-> mediaUrl,
     mediaType |-> mediaType, avatarUrl |-> avatarUrl, senderId |-> senderId,
     replyToMessageId |-> replyToMessageId]

(* Mutant: the room's list is started afresh for every message. *)
chatroomMessagesFresh(chatroomId) == ListNil

chatroomMessages(chatroomId) ==
    IF IsSome(natMapGet(messages, chatroomId))
    THEN TheVal(natMapGet(messages, chatroomId))
    ELSE ListNil

(* Mutant: the message count is not incremented. *)
withMessageCountKept(chatroom) == chatroom

withMessageCount(chatroom) ==
    [chatroom EXCEPT !.messageCount = chatroom.messageCount + 1]

(* Mutant: the room is looked up before the content is checked. *)
sendMessageRoomFirst(content, sender, chatroomId, mediaUrl, mediaType, avatarUrl, senderId, replyToMessageId) ==
    IF ~IsSome(natMapGet(chatrooms, chatroomId))
       THEN /\ last' = Outcome("sendMessage", TrapNoChatroom, None, <<chatroomId, senderId, content>>)
            /\ UNCHANGED <<nextMessageId, nextChatroomId, chatrooms, messages,
                           activeUsers, reactions, now>>
       ELSE IF TextSize(content) = 0
       THEN /\ last' = Outcome("sendMessage", TrapEmptyContent, None, <<chatroomId, senderId, content>>)
            /\ UNCHANGED <<nextMessageId, nextChatroomId, chatrooms, messages,
                           activeUsers, reactions, now>>
       ELSE LET chatroom == TheVal(natMapGet(chatrooms, chatroomId))
                message == newMessage(content, sender, chatroomId, mediaUrl,
                                      mediaType, avatarUrl, senderId,
                                      replyToMessageId)
            IN /\ messages' = natMapPut(messages, chatroomId,
                                        ListPush(message, chatroomMessages(chatroomId)))
               /\ nextMessageId' = nextMessageId + 1
               /\ chatrooms' = natMapPut(chatrooms, chatroomId,
                                         withMessageCount(chatroom))
               /\ activeUsers' = natMapPut(activeUsers, chatroomId,
                                   updatedActiveUsers(activeUsersForRoom(chatroomId),
                                                      senderId, now))
               /\ last' = Outcome("sendMessage", Ok, None, <<chatroomId, senderId, content>>)
               /\ UNCHANGED <<nextChatroomId, reactions, now>>

sendMessage(content, sender, chatroomId, mediaUrl, mediaType, avatarUrl, senderId, replyToMessageId) ==
    IF TextSize(content) = 0
       THEN /\ last' = Outcome("sendMessage", TrapEmptyContent, None, <<chatroomId, senderId, content>>)
            /\ UNCHANGED <<nextMessageId, nextChatroomId, chatrooms, messages,
                           activeUsers, reactions, now>>
       ELSE IF ~IsSome(natMapGet(chatrooms, chatroomId))
       THEN /\ last' = Outcome("sendMessage", TrapNoChatroom, None, <<chatroomId, senderId, content>>)
            /\ UNCHANGED <<nextMessageId, nextChatroomId, chatrooms, messages,
                           activeUsers, reactions, now>>
       ELSE LET chatroom == TheVal(natMapGet(chatrooms, chatroomId))
                message == newMessage(content, sender, chatroomId, mediaUrl,
                                      mediaType, avatarUrl, senderId,
                                      replyToMessageId)
            IN /\ messages' = natMapPut(messages, chatroomId,
                                        ListPush(message, chatroomMessages(chatroomId)))
               /\ nextMessageId' = nextMessageId + 1
               /\ chatrooms' = natMapPut(chatrooms, chatroomId,
                                         withMessageCount(chatroom))
               /\ activeUsers' = natMapPut(activeUsers, chatroomId,
                                   updatedActiveUsers(activeUsersForRoom(chatroomId),
                                                      senderId, now))
               /\ last' = Outcome("sendMessage", Ok, None, <<chatroomId, senderId, content>>)
               /\ UNCHANGED <<nextChatroomId, reactions, now>>

(* Mutant: the stored list is returned as it is, newest message first. *)
getMessagesStoredOrder(chatroomId) ==
    IF IsSome(natMapGet(messages, chatroomId))
    THEN ListToArray(TheVal(natMapGet(messages, chatroomId)))
    ELSE <<>>

getMessages(chatroomId) ==
    IF IsSome(natMapGet(messages, chatroomId))
    THEN ListToArray(ListReverse(TheVal(natMapGet(messages, chatroomId))))
    ELSE <<>>

(* --------------------------- incrementViewCount ----------------------- *)

(* Mutant: the view is not counted. *)
withViewCountKept(chatroom) == chatroom

withViewCount(chatroom) ==
    [chatroom EXCEPT !.viewCount = chatroom.viewCount + 1]

(* Mutant: a view of an unknown room records the viewer's presence. *)
incrementViewCountUnknownRoom(chatroomId, userId) ==
    IF ~IsSome(natMapGet(chatrooms, chatroomId))
       THEN /\ activeUsers' = natMapPut(activeUsers, chatroomId,
                                updatedActiveUsers(activeUsersForRoom(chatroomId),
                                                   userId, now))
            /\ last' = Outcome("incrementViewCount", TrapNoChatroom, None, <<chatroomId, userId>>)
            /\ UNCHANGED <<nextMessageId, nextChatroomId, chatrooms, messages,
                           reactions, now>>
       ELSE LET chatroom == TheVal(natMapGet(chatrooms, chatroomId))
            IN /\ chatrooms' = natMapPut(chatrooms, chatroomId, withViewCount(chatroom))
               /\ activeUsers' = natMapPut(activeUsers, chatroomId,
                                   updatedActiveUsers(activeUsersForRoom(chatroomId),
                                                      userId, now))
               /\ last' = Outcome("incrementViewCount", Ok, None, <<chatroomId, userId>>)
               /\ UNCHANGED <<nextMessageId, nextChatroomId, messages, reactions, now>>

incrementViewCount(chatroomId, userId) ==
    IF ~IsSome(natMapGet(chatrooms, chatroomId))
       THEN /\ last' = Outcome("incrementViewCount", TrapNoChatroom, None, <<chatroomId, userId>>)
            /\ UNCHANGED <<nextMessageId, nextChatroomId, chatrooms, messages,
                           activeUsers, reactions, now>>
       ELSE LET chatroom == TheVal(natMapGet(chatrooms, chatroomId))
            IN /\ chatrooms' = natMapPut(chatrooms, chatroomId, withViewCount(chatroom))
               /\ activeUsers' = natMapPut(activeUsers, chatroomId,
                                   updatedActiveUsers(activeUsersForRoom(chatroomId),
                                                      userId, now))
               /\ last' = Outcome("incrementViewCount", Ok, None, <<chatroomId, userId>>)
               /\ UNCHANGED <<nextMessageId, nextChatroomId, messages, reactions, now>>

(* ------------------------------ pin / unpin --------------------------- *)

(* Mutant: a message id that is not in the room's list is not pinned. *)
pinVideoValidated(chatroomId, messageId) ==
    IF ~IsSome(natMapGet(chatrooms, chatroomId))
       THEN /\ last' = Outcome("pinVideo", TrapNoChatroom, None, <<chatroomId, messageId>>)
            /\ UNCHANGED <<nextMessageId, nextChatroomId, chatrooms, messages,
                           activeUsers, reactions, now>>
       ELSE LET chatroom == TheVal(natMapGet(chatrooms, chatroomId))
                known == \E i \in 1..Len(chatroomMessages(chatroomId)) :
                            chatroomMessages(chatroomId)[i].id = messageId
            IN /\ chatrooms' = IF known
                               THEN natMapPut(chatrooms, chatroomId,
                                      [chatroom EXCEPT !.pinnedVideoId = Some(messageId)])
                               ELSE chatrooms
               /\ last' = Outcome("pinVideo", Ok, None, <<chatroomId, messageId>>)
               /\ UNCHANGED <<nextMessageId, nextChatroomId, messages, activeUsers,
                              reactions, now>>

(* Mutant: the chatroom id is stored as the pinned id. *)
pinVideoSwapped(chatroomId, messageId) ==
    IF ~IsSome(natMapGet(chatrooms, chatroomId))
       THEN /\ last' = Outcome("pinVideo", TrapNoChatroom, None, <<chatroomId, messageId>>)
            /\ UNCHANGED <<nextMessageId, nextChatroomId, chatrooms, messages,
                           activeUsers, reactions, now>>
       ELSE LET chatroom == TheVal(natMapGet(chatrooms, chatroomId))
            IN /\ chatrooms' = natMapPut(chatrooms, chatroomId,
                                 [chatroom EXCEPT !.pinnedVideoId = Some(chatroomId)])
               /\ last' = Outcome("pinVideo", Ok, None, <<chatroomId, messageId>>)
               /\ UNCHANGED <<nextMessageId, nextChatroomId, messages, activeUsers,
                              reactions, now>>

(* Mutant: the updated record is stored under the message id. *)
pinVideoAtMessageId(chatroomId, messageId) ==
    IF ~IsSome(natMapGet(chatrooms, chatroomId))
       THEN /\ last' = Outcome("pinVideo", TrapNoChatroom, None, <<chatroomId, messageId>>)
            /\ UNCHANGED <<nextMessageId, nextChatroomId, chatrooms, messages,
                           activeUsers, reactions, now>>
       ELSE LET chatroom == TheVal(natMapGet(chatrooms, chatroomId))
            IN /\ chatrooms' = natMapPut(chatrooms, messageId,
                                 [chatroom EXCEPT !.pinnedVideoId = Some(messageId)])
               /\ last' = Outcome("pinVideo", Ok, None, <<chatroomId, messageId>>)
               /\ UNCHANGED <<nextMessageId, nextChatroomId, messages, activeUsers,
                              reactions, now>>

pinVideo(chatroomId, messageId) ==
    IF ~IsSome(natMapGet(chatrooms, chatroomId))
       THEN /\ last' = Outcome("pinVideo", TrapNoChatroom, None, <<chatroomId, messageId>>)
            /\ UNCHANGED <<nextMessageId, nextChatroomId, chatrooms, messages,
                           activeUsers, reactions, now>>
       ELSE LET chatroom == TheVal(natMapGet(chatrooms, chatroomId))
            IN /\ chatrooms' = natMapPut(chatrooms, chatroomId,
                                 [chatroom EXCEPT !.pinnedVideoId = Some(messageId)])
               /\ last' = Outcome("pinVideo", Ok, None, <<chatroomId, messageId>>)
               /\ UNCHANGED <<nextMessageId, nextChatroomId, messages, activeUsers,
                              reactions, now>>

unpinVideo(chatroomId) ==
    IF ~IsSome(natMapGet(chatrooms, chatroomId))
       THEN /\ last' = Outcome("unpinVideo", TrapNoChatroom, None, <<chatroomId>>)
            /\ UNCHANGED <<nextMessageId, nextChatroomId, chatrooms, messages,
                           activeUsers, reactions, now>>
       ELSE LET chatroom == TheVal(natMapGet(chatrooms, chatroomId))
            IN /\ chatrooms' = natMapPut(chatrooms, chatroomId,
                                 [chatroom EXCEPT !.pinnedVideoId = None])
               /\ last' = Outcome("unpinVideo", Ok, None, <<chatroomId>>)
               /\ UNCHANGED <<nextMessageId, nextChatroomId, messages, activeUsers,
                              reactions, now>>

getPinnedVideo(chatroomId) ==
    IF IsSome(natMapGet(chatrooms, chatroomId))
    THEN TheVal(natMapGet(chatrooms, chatroomId)).pinnedVideoId
    ELSE None

(* ------------------------- retroactive rewrites ----------------------- *)

(* Mutant: the rewrite matches on the display name instead of the identity. *)
withSenderByName(message, senderId, newUsername) ==
    IF message.sender = senderId
    THEN [message EXCEPT !.sender = newUsername]
    ELSE message

withSender(message, senderId, newUsername) ==
    IF message.senderId = senderId
    THEN [message EXCEPT !.sender = newUsername]
    ELSE message

(* Mutant: a null avatar leaves the stored avatar in place. *)
withAvatarKeptOnNull(message, senderId, newAvatarUrl) ==
    IF message.senderId = senderId /\ IsSome(newAvatarUrl)
    THEN [message EXCEPT !.avatarUrl = newAvatarUrl]
    ELSE message

withAvatar(message, senderId, newAvatarUrl) ==
    IF message.senderId = senderId
    THEN [message EXCEPT !.avatarUrl = newAvatarUrl]
    ELSE message

(* Mutant: the rewrite stops after the first chatroom of the map. *)
renamedMessagesFirstRoom(senderId, newUsername) ==
    [chatroomId \in DOMAIN messages |->
        IF \A other \in DOMAIN messages : chatroomId <= other
        THEN [i \in 1..Len(messages[chatroomId]) |->
                withSender(messages[chatroomId][i], senderId, newUsername)]
        ELSE messages[chatroomId]]

(* Mutant: only the latest message of each chatroom is renamed. *)
renamedMessagesLatestOnly(senderId, newUsername) ==
    [chatroomId \in DOMAIN messages |->
        [i \in 1..Len(messages[chatroomId]) |->
            IF i = 1 THEN withSender(messages[chatroomId][i], senderId, newUsername)
            ELSE messages[chatroomId][i]]]

renamedMessages(senderId, newUsername) ==
    [chatroomId \in DOMAIN messages |->
        [i \in 1..Len(messages[chatroomId]) |->
            withSender(messages[chatroomId][i], senderId, newUsername)]]

reavataredMessages(senderId, newAvatarUrl) ==
    [chatroomId \in DOMAIN messages |->
        [i \in 1..Len(messages[chatroomId]) |->
            withAvatar(messages[chatroomId][i], senderId, newAvatarUrl)]]

updateUsernameRetroactively(senderId, newUsername) ==
    /\ messages' = renamedMessages(senderId, newUsername)
    /\ last' = Outcome("updateUsernameRetroactively", Ok, None, <<senderId, newUsername>>)
    /\ UNCHANGED <<nextMessageId, nextChatroomId, chatrooms, activeUsers,
                   reactions, now>>

updateAvatarRetroactively(senderId, newAvatarUrl) ==
    /\ messages' = reavataredMessages(senderId, newAvatarUrl)
    /\ last' = Outcome("updateAvatarRetroactively", Ok, None, <<senderId, newAvatarUrl>>)
    /\ UNCHANGED <<nextMessageId, nextChatroomId, chatrooms, activeUsers,
                   reactions, now>>

(* --------------------------- cleanupInactiveUsers --------------------- *)

(* authorization/access-control is a collaborator outside src/: the caller *)
(* either holds the #admin permission or does not.                         *)
hasPermission(caller) == caller = "admin"

(* Mutant: the sweep drops the records older than half the threshold. *)
sweptActiveUsersEager(currentTime) ==
    [chatroomId \in DOMAIN activeUsers |->
        SelectSeq(activeUsers[chatroomId],
                  LAMBDA user : 2 * IntAbs(currentTime - user.lastActive) <= activeThreshold)]

sweptActiveUsers(currentTime) ==
    [chatroomId \in DOMAIN activeUsers |->
        SelectSeq(activeUsers[chatroomId], LAMBDA user : isActive(currentTime, user))]

(* Mutant: the permission test is inverted. *)
cleanupInactiveUsersInverted(caller) ==
    IF hasPermission(caller)
    THEN /\ last' = Outcome("cleanupInactiveUsers", TrapUnauthorized, None, <<caller>>)
         /\ UNCHANGED <<nextMessageId, nextChatroomId, chatrooms, messages,
                        activeUsers, reactions, now>>
    ELSE /\ activeUsers' = sweptActiveUsers(now)
         /\ last' = Outcome("cleanupInactiveUsers", Ok, None, <<caller>>)
         /\ UNCHANGED <<nextMessageId, nextChatroomId, chatrooms, messages,
                        reactions, now>>

cleanupInactiveUsers(caller) ==
    IF ~hasPermission(caller)
    THEN /\ last' = Outcome("cleanupInactiveUsers", TrapUnauthorized, None, <<caller>>)
         /\ UNCHANGED <<nextMessageId, nextChatroomId, chatrooms, messages,
                        activeUsers, reactions, now>>
    ELSE /\ activeUsers' = sweptActiveUsers(now)
         /\ last' = Outcome("cleanupInactiveUsers", Ok, None, <<caller>>)
         /\ UNCHANGED <<nextMessageId, nextChatroomId, chatrooms, messages,
                        reactions, now>>

(* ------------------------------ reactions ----------------------------- *)

messageReactions(messageId) ==
    IF IsSome(natMapGet(reactions, messageId))
    THEN TheVal(natMapGet(reactions, messageId))
    ELSE ListNil

hasReacted(reaction, userId) ==
    \E i \in 1..Len(reaction.users) : reaction.users[i] = userId

(* Mutant: the fold does not look for the identity among the reactors. *)
addReactionStepUnchecked(st, reaction, emoji, userId) ==
    IF reaction.emoji = emoji
    THEN <<ListPush([reaction EXCEPT !.count = reaction.count + 1,
                                     !.users = ListPush(userId, reaction.users)],
                    st[1]), TRUE>>
    ELSE <<ListPush(reaction, st[1]), st[2]>>

(* One step of the fold of addReaction: st is the pair (acc, found). *)
addReactionStep(st, reaction, emoji, userId) ==
    IF reaction.emoji = emoji
    THEN IF ~hasReacted(reaction, userId)
         THEN <<ListPush([reaction EXCEPT !.count = reaction.count + 1,
                                          !.users = ListPush(userId, reaction.users)],
                         st[1]), TRUE>>
         ELSE <<ListPush(reaction, st[1]), TRUE>>
    ELSE <<ListPush(reaction, st[1]), st[2]>>

RECURSIVE addReactionFold(_, _, _, _)
addReactionFold(l, st, emoji, userId) ==
    IF l = ListNil THEN st
    ELSE addReactionFold(Tail(l), addReactionStep(st, Head(l), emoji, userId),
                         emoji, userId)

(* Mutant: the entry of a first reaction starts at count 0. *)
newReactionCountZero(emoji, userId) ==
    [emoji |-> emoji, count |-> 0, users |-> ListPush(userId, ListNil)]

newReaction(emoji, userId) ==
    [emoji |-> emoji, count |-> 1, users |-> ListPush(userId, ListNil)]

(* Mutant: the folded list is stored as the fold leaves it, back to front. *)
addedReactionsUnreversed(rs, messageId, emoji, userId) ==
    LET existing == IF IsSome(natMapGet(rs, messageId))
                    THEN TheVal(natMapGet(rs, messageId)) ELSE ListNil
        folded == addReactionFold(existing, <<ListNil, FALSE>>, emoji, userId)
    IN IF ~folded[2]
       THEN natMapPut(rs, messageId, ListPush(newReaction(emoji, userId), existing))
       ELSE natMapPut(rs, messageId, folded[1])

(* The reaction table after addReaction(messageId, emoji, userId) on table rs. *)
addedReactions(rs, messageId, emoji, userId) ==
    LET existing == IF IsSome(natMapGet(rs, messageId))
                    THEN TheVal(natMapGet(rs, messageId)) ELSE ListNil
        folded == addReactionFold(existing, <<ListNil, FALSE>>, emoji, userId)
    IN IF ~folded[2]
       THEN natMapPut(rs, messageId, ListPush(newReaction(emoji, userId), existing))
       ELSE natMapPut(rs, messageId, ListReverse(folded[1]))

(* Mutant: a reaction counts as a touch of chatroom 0. *)
addReactionTouching(messageId, emoji, userId) ==
    /\ reactions' = addedReactions(reactions, messageId, emoji, userId)
    /\ activeUsers' = natMapPut(activeUsers, 0,
                                updatedActiveUsers(activeUsersForRoom(0), userId, now))
    /\ last' = Outcome("addReaction", Ok, None, <<messageId, emoji, userId>>)
    /\ UNCHANGED <<nextMessageId, nextChatroomId, chatrooms, messages, now>>

addReaction(messageId, emoji, userId) ==
    /\ reactions' = addedReactions(reactions, messageId, emoji, userId)
    /\ last' = Outcome("addReaction", Ok, None, <<messageId, emoji, userId>>)
    /\ UNCHANGED <<nextMessageId, nextChatroomId, chatrooms, messages,
                   activeUsers, now>>

(* Mutant: removing drops the identity and keeps the stored count. *)
withoutUserCountKept(reaction, emoji, userId) ==
    IF reaction.emoji = emoji
    THEN [reaction EXCEPT
            !.users = SelectSeq(reaction.users, LAMBDA user : user # userId)]
    ELSE reaction

withoutUser(reaction, emoji, userId) ==
    IF reaction.emoji = emoji
    THEN [reaction EXCEPT
            !.count = IF reaction.count > 0 THEN reaction.count - 1 ELSE 0,
            !.users = SelectSeq(reaction.users, LAMBDA user : user # userId)]
    ELSE reaction

(* The reaction table after removeReaction(messageId, emoji, userId). *)
removedReactions(rs, messageId, emoji, userId) ==
    LET existing == IF IsSome(natMapGet(rs, messageId))
                    THEN TheVal(natMapGet(rs, messageId)) ELSE ListNil
    IN natMapPut(rs, messageId,
                 [i \in 1..Len(existing) |-> withoutUser(existing[i], emoji, userId)])

removeReaction(messageId, emoji, userId) ==
    /\ reactions' = removedReactions(reactions, messageId, emoji, userId)
    /\ last' = Outcome("removeReaction", Ok, None, <<messageId, emoji, userId>>)
    /\ UNCHANGED <<nextMessageId, nextChatroomId, chatrooms, messages,
                   activeUsers, now>>

(* Mutant: the entries are returned oldest emoji first. *)
getReactionsReversed(messageId) ==
    IF IsSome(natMapGet(reactions, messageId))
    THEN ListToArray(ListReverse(TheVal(natMapGet(reactions, messageId))))
    ELSE <<>>

getReactions(messageId) ==
    IF IsSome(natMapGet(reactions, messageId))
    THEN ListToArray(TheVal(natMapGet(reactions, messageId)))
    ELSE <<>>

(* --------------------------- chatroom queries ------------------------- *)

withLiveStatus(chatroom, activeUserCount) ==
    [id |-> chatroom.id, topic |-> chatroom.topic,
     description |-> chatroom.description, mediaUrl |-> chatroom.mediaUrl,
     mediaType |-> chatroom.mediaType, createdAt |-> chatroom.createdAt,
     messageCount |-> chatroom.messageCount, viewCount |-> chatroom.viewCount,
     pinnedVideoId |-> chatroom.pinnedVideoId, isLive |-> activeUserCount > 0,
     activeUserCount |-> activeUserCount, category |-> chatroom.category]

(* Mutant: every record counts, whatever its age. *)
getChatroomsCountAnyAge(chatroom, currentTime) ==
    ListSize(activeUsersForRoom(chatroom.id))

getChatroomsCount(chatroom, currentTime) ==
    ListSize(SelectSeq(activeUsersForRoom(chatroom.id),
                       LAMBDA user : IntAbs(currentTime - user.lastActive) <= activeThreshold))

getChatrooms ==
    IF natMapSize(chatrooms) = 0 THEN <<>>
    ELSE LET vals == natMapVals(chatrooms)
         IN [i \in 1..Len(vals) |->
                withLiveStatus(vals[i], getChatroomsCount(vals[i], now))]

(* Mutant: the window excludes its boundary. *)
getChatroomCountStrict(id, currentTime) ==
    ListSize(SelectSeq(activeUsersForRoom(id),
                       LAMBDA user : IntAbs(currentTime - user.lastActive) < activeThreshold))

getChatroomCount(id, currentTime) ==
    ListSize(SelectSeq(activeUsersForRoom(id),
                       LAMBDA user : IntAbs(currentTime - user.lastActive) <= activeThreshold))

(* Mutant: an unknown id traps, as it does in the update methods. *)
getChatroomTrapping(id) ==
    IF ~IsSome(natMapGet(chatrooms, id)) THEN Some(TrapNoChatroom)
    ELSE Some(withLiveStatus(TheVal(natMapGet(chatrooms, id)), getChatroomCount(id, now)))

getChatroom(id) ==
    IF ~IsSome(natMapGet(chatrooms, id)) THEN None
    ELSE Some(withLiveStatus(TheVal(natMapGet(chatrooms, id)), getChatroomCount(id, now)))

searchChatroomsCount(chatroom, currentTime) ==
    ListSize(SelectSeq(activeUsersForRoom(chatroom.id),
                       LAMBDA user : IntAbs(currentTime - user.lastActive) <= activeThreshold))

searchChatrooms(searchTerm) ==
    LET lowerSearchTerm == TextToLowercase(searchTerm)
    IN IF natMapSize(chatrooms) = 0 THEN <<>>
       ELSE LET vals == natMapVals(chatrooms)
                views == [i \in 1..Len(vals) |->
                            withLiveStatus(vals[i], searchChatroomsCount(vals[i], now))]
            IN SelectSeq(views, LAMBDA chatroom :
                   \/ TextContains(TextToLowercase(chatroom.topic), lowerSearchTerm)
                   \/ TextContains(TextToLowercase(chatroom.description), lowerSearchTerm)
                   \/ TextContains(TextToLowercase(chatroom.category), lowerSearchTerm))

(* Mutant: the category filter counts every record, stale or not. *)
filterChatroomsCountAll(chatroom, currentTime) ==
    ListSize(activeUsersForRoom(chatroom.id))

filterChatroomsCount(chatroom, currentTime) ==
    ListSize(SelectSeq(activeUsersForRoom(chatroom.id),
                       LAMBDA user : IntAbs(currentTime - user.lastActive) <= activeThreshold))

filterChatroomsByCategory(category) ==
    LET lowerCategory == TextToLowercase(category)
    IN IF natMapSize(chatrooms) = 0 THEN <<>>
       ELSE LET vals == natMapVals(chatrooms)
                views == [i \in 1..Len(vals) |->
                            withLiveStatus(vals[i], filterChatroomsCount(vals[i], now))]
            IN SelectSeq(views, LAMBDA chatroom :
                   TextToLowercase(chatroom.category) = lowerCategory)

(* --------------------------- message queries -------------------------- *)

getMessageWithReactionsAndReplies(chatroomId) ==
    IF ~IsSome(natMapGet(messages, chatroomId)) THEN <<>>
    ELSE LET reversedMessages == ListReverse(TheVal(natMapGet(messages, chatroomId)))
         IN [i \in 1..Len(reversedMessages) |->
                [id |-> reversedMessages[i].id,
                 content |-> reversedMessages[i].content,
                 timestamp |-> reversedMessages[i].timestamp,
                 sender |-> reversedMessages[i].sender,
                 chatroomId |-> reversedMessages[i].chatroomId,
                 mediaUrl |-> reversedMessages[i].mediaUrl,
                 mediaType |-> reversedMessages[i].mediaType,
                 avatarUrl |-> reversedMessages[i].avatarUrl,
                 senderId |-> reversedMessages[i].senderId,
                 reactions |-> messageReactions(reversedMessages[i].id),
                 replyToMessageId |-> reversedMessages[i].replyToMessageId]]

(* Mutant: the replies are returned in stored order, newest first. *)
getRepliesStoredOrder(chatroomId, parentMessageId) ==
    IF ~IsSome(natMapGet(messages, chatroomId)) THEN <<>>
    ELSE ListToArray(
             SelectSeq(TheVal(natMapGet(messages, chatroomId)),
                       LAMBDA msg : /\ IsSome(msg.replyToMessageId)
                                    /\ TheVal(msg.replyToMessageId) = parentMessageId))

getReplies(chatroomId, parentMessageId) ==
    IF ~IsSome(natMapGet(messages, chatroomId)) THEN <<>>
    ELSE ListToArray(ListReverse(
             SelectSeq(TheVal(natMapGet(messages, chatroomId)),
                       LAMBDA msg : /\ IsSome(msg.replyToMessageId)
                                    /\ TheVal(msg.replyToMessageId) = parentMessageId)))

(* Mutant: a cut text ends in an ellipsis. *)
truncateTextEllipsis(text, maxLength) ==
    LET length == IF Len(text) > maxLength THEN maxLength ELSE Len(text)
    IN IF Len(text) > maxLength
       THEN [i \in 1..length |-> text[i]] \o <<".", ".", ".">>
       ELSE text

truncateText(text, maxLength) ==
    LET length == IF Len(text) > maxLength THEN maxLength ELSE Len(text)
    IN [i \in 1..length |-> text[i]]

getReplyPreview(chatroomId, messageId) ==
    IF ~IsSome(natMapGet(messages, chatroomId)) THEN None
    ELSE LET found == SelectSeq(TheVal(natMapGet(messages, chatroomId)),
                                LAMBDA msg : msg.id = messageId)
         IN IF found = <<>> THEN None
            ELSE LET msg == Head(found)
                 IN Some([messageId |-> messageId,
                          sender |-> msg.sender,
                          contentSnippet |-> IF TextSize(msg.content) > 100
                                             THEN truncateText(msg.content, 100)
                                             ELSE msg.content,
                          mediaThumbnail |-> msg.mediaUrl])

(* ------------------------- inputs of the calls ------------------------ *)

TopicMovie == <<"M", "o", "v", "i", "e">>
TopicCats == <<"C", "a", "t", "s">>
DescFilm == <<"f", "i", "l", "m">>
DescPics == <<"p", "i", "c", "s">>
UrlYouTube == <<"y", "o", "u", "t", "u", ".", "b", "e", "/", "x">>
UrlImage == <<"a", ".", "P", "N", "G">>
UrlBmp == <<"a", ".", "b", "m", "p">>
CategoryFun == <<"F", "u", "n">>
CategoryLowerFun == <<"f", "u", "n">>
ContentHi == <<"h", "i">>

(* <<topic, description, mediaUrl, mediaType, category>> *)
(* Contents of exactly 100 and of 101 characters, the first an "a" and the *)
(* last a "z".                                                             *)
LongContent(n) == [i \in 1..n |-> IF i = 1 THEN "a" ELSE IF i = n THEN "z" ELSE "x"]
Content100 == LongContent(100)
Content101 == LongContent(101)
RoomMovie == <<TopicMovie, DescFilm, UrlYouTube, "youtube", CategoryFun>>
RoomCats == <<TopicCats, DescPics, UrlImage, "image", CategoryLowerFun>>
RoomNoTopic == <<<<>>, DescFilm, UrlYouTube, "youtube", CategoryFun>>
RoomBadMedia == <<TopicCats, DescPics, UrlBmp, "image", CategoryLowerFun>>
RoomNoDescription == <<TopicMovie, <<>>, UrlYouTube, "youtube", CategoryFun>>
RoomNoMediaUrl == <<TopicMovie, DescFilm, <<>>, "youtube", CategoryFun>>
RoomNoCategory == <<TopicMovie, DescFilm, UrlYouTube, "youtube", <<>>>>
RoomBadType == <<TopicMovie, DescFilm, UrlYouTube, "video", CategoryFun>>
RoomInputs == {RoomMovie, RoomCats, RoomNoTopic, RoomNoDescription, RoomNoMediaUrl,
               RoomNoCategory, RoomBadMedia, RoomBadType}

Identities == {"u1", "u2"}
SenderNames == {"Alice", "Bob"}
Avatars == {None, Some("a1")}
Callers == {"admin", "anon"}
Emojis == {"thumbsup", "fire"}
EmojisThree == {"thumbsup", "fire", "heart"}
ReactionIds == {0, 1}

(* ----------------------------- the calls ------------------------------ *)

CallCreateChatroom(inputs, maxRooms, maxMessages) ==
    \E inp \in inputs :
        /\ nextChatroomId < maxRooms
        /\ nextMessageId < maxMessages
        /\ createChatroom(inp[1], inp[2], inp[3], inp[4], inp[5])

CallSendMessage(contents, senders, chatroomIds, senderIds, replyTos, maxMessages) ==
    \E content \in contents, sender \in senders, chatroomId \in chatroomIds,
       senderId \in senderIds, replyTo \in replyTos :
        /\ nextMessageId < maxMessages
        /\ sendMessage(content, sender, chatroomId, None, None, None, senderId, replyTo)

CallIncrementViewCount(chatroomIds, userIds, maxViews) ==
    \E chatroomId \in chatroomIds, userId \in userIds :
        /\ chatroomId \in DOMAIN chatrooms => chatrooms[chatroomId].viewCount < maxViews
        /\ incrementViewCount(chatroomId, userId)

CallPinVideo(chatroomIds, messageIds) ==
    \E chatroomId \in chatroomIds, messageId \in messageIds :
        pinVideo(chatroomId, messageId)

CallUnpinVideo(chatroomIds) == \E chatroomId \in chatroomIds : unpinVideo(chatroomId)

CallUpdateUsername(senderIds, names) ==
    \E senderId \in senderIds, newUsername \in names :
        updateUsernameRetroactively(senderId, newUsername)

CallUpdateAvatar(senderIds, avatars) ==
    \E senderId \in senderIds, newAvatarUrl \in avatars :
        updateAvatarRetroactively(senderId, newAvatarUrl)

CallCleanup(callers) == \E caller \in callers : cleanupInactiveUsers(caller)

CallAddReaction(messageIds, emojis, userIds) ==
    \E messageId \in messageIds, emoji \in emojis, userId \in userIds :
        addReaction(messageId, emoji, userId)

CallRemoveReaction(messageIds, emojis, userIds) ==
    \E messageId \in messageIds, emoji \in emojis, userId \in userIds :
        removeReaction(messageId, emoji, userId)

(* --------------------------- specifications --------------------------- *)
(* Each specification runs the calls that write the tables its properties *)
(* read; a call it leaves out leaves those tables UNCHANGED.              *)

(* Rooms, messages and the retroactive rewrites. *)
NextMessages ==
    \/ Tick({61}, MsgMaxTime)
    \/ CallCreateChatroom({RoomMovie, RoomNoTopic}, MsgMaxRooms, MsgMaxMessages)
    \/ CallSendMessage({<<>>, ContentHi}, SenderNames, 0..MsgMaxRooms, Identities,
                       {None, Some(0)}, MsgMaxMessages)
    \/ CallUpdateUsername({"u1", "creator"}, SenderNames)
    \/ CallUpdateAvatar({"u1"}, Avatars)

SpecMessages == Init /\ [][NextMessages]_vars

(* Presence: the touches, the sweep and the clock, from the state reached  *)
(* by createChatroom(RoomMovie) and then createChatroom(RoomCats) at time  *)
(* 0 (a state of Spec).  Chatroom id 2 is a room that does not exist.      *)
InitTwoRooms ==
    /\ nextMessageId = 2
    /\ nextChatroomId = 2
    /\ chatrooms = [id \in {0, 1} |->
            IF id = 0
            THEN newChatroom(0, RoomMovie[1], RoomMovie[2], RoomMovie[3],
                             RoomMovie[4], RoomMovie[5], 0)
            ELSE newChatroom(1, RoomCats[1], RoomCats[2], RoomCats[3],
                             RoomCats[4], RoomCats[5], 0)]
    /\ messages = [id \in {0, 1} |->
            IF id = 0
            THEN ListPush(firstMessage(0, 0, RoomMovie[3], RoomMovie[4], 0), ListNil)
            ELSE ListPush(firstMessage(1, 1, RoomCats[3], RoomCats[4], 0), ListNil)]
    /\ activeUsers = natMapEmpty
    /\ reactions = natMapEmpty
    /\ now = 0
    /\ last = Outcome("createChatroom", Ok, Some(1), RoomCats)

NextPresence ==
    \/ Tick({60, 61}, PresMaxTime)
    \/ CallSendMessage({ContentHi}, {"Alice"}, {0, 1, 2}, Identities, {None},
                       PresMaxMessages)
    \/ CallIncrementViewCount({0, 1, 2}, Identities, PresMaxViews)
    \/ CallCleanup(Callers)

SpecPresence == InitTwoRooms /\ [][NextPresence]_vars

(* Reactions: the table is keyed by message id alone, assigned or not. *)
NextReactions ==
    \/ CallAddReaction(ReactionIds, Emojis, Identities)
    \/ CallRemoveReaction(ReactionIds, Emojis, Identities)

SpecReactions == Init /\ [][NextReactions]_vars

(* Rooms: creation on valid and invalid inputs, and the room-scoped       *)
(* mutations on rooms that exist and on ids that were never handed out.    *)
NextRooms ==
    \/ Tick({61}, RoomMaxTime)
    \/ CallCreateChatroom(RoomInputs, RoomMaxRooms, RoomMaxMessages)
    \/ CallSendMessage({<<>>, ContentHi}, {"Alice"}, 0..RoomMaxRooms, {"u1"}, {None},
                       RoomMaxMessages)
    \/ CallIncrementViewCount(0..RoomMaxRooms, {"u1"}, RoomMaxViews)
    \/ CallPinVideo(0..RoomMaxRooms, {0})
    \/ CallUnpinVideo(0..RoomMaxRooms)

SpecRooms == Init /\ [][NextRooms]_vars

(* Threads: replies to the seed messages and to replies, in two rooms, from *)
(* the state reached by two createChatroom calls.                           *)
NextThreads ==
    \/ Tick({1}, ThreadMaxTime)
    \/ CallSendMessage({ContentHi}, {"Alice"}, {0, 1}, {"u1"},
                       {None, Some(0), Some(2)}, ThreadMaxMessages)

SpecThreads == InitTwoRooms /\ [][NextThreads]_vars

(* Pins: pinVideo and unpinVideo on message ids that exist in the room, in *)
(* the other room or nowhere (7), among the calls that write the other     *)
(* tables, from the state reached by two createChatroom calls.             *)
NextPins ==
    \/ Tick({61}, PinMaxTime)
    \/ CallPinVideo({0, 1, 2}, {0, 7})
    \/ CallUnpinVideo({0, 1, 2})
    \/ CallSendMessage({ContentHi}, {"Alice"}, {0}, {"u1"}, {None}, PinMaxMessages)
    \/ CallIncrementViewCount({0}, {"u1"}, PinMaxViews)
    \/ CallUpdateUsername({"u1"}, {"Bob"})
    \/ CallUpdateAvatar({"u1"}, {Some("a1")})
    \/ CallCleanup({"admin"})
    \/ CallAddReaction({0}, {"thumbsup"}, {"u1"})
    \/ CallRemoveReaction({0}, {"thumbsup"}, {"u1"})

SpecPins == InitTwoRooms /\ [][NextPins]_vars

(* The walk-through of one room: its creation, a message of "u1", a       *)
(* reaction of "u2" to the message after the seed, a view of "u3", and the *)
(* clock, from the empty state and in any order.                           *)
NextScenario ==
    \/ Tick({30, 31}, ScenMaxTime)
    \/ CallCreateChatroom({RoomMovie}, ScenMaxRooms, ScenMaxMessages)
    \/ CallSendMessage({ContentHi}, {"Alice"}, {0}, {"u1"}, {None}, ScenMaxMessages)
    \/ CallAddReaction({1}, Emojis, {"u2"})
    \/ CallIncrementViewCount({0}, {"u3"}, ScenMaxViews)

SpecScenario == Init /\ [][NextScenario]_vars

(* The feed: rooms, their messages and the reactions to message ids 0 and  *)
(* 1, whether or not the id has been handed out yet.                       *)
NextFeed ==
    \/ CallCreateChatroom({RoomMovie}, FeedMaxRooms, FeedMaxMessages)
    \/ CallSendMessage({ContentHi}, {"Alice"}, {0, 1}, {"u1"}, {None}, FeedMaxMessages)
    \/ CallAddReaction(ReactionIds, Emojis, {"u1"})
    \/ CallRemoveReaction(ReactionIds, Emojis, {"u1"})

SpecFeed == Init /\ [][NextFeed]_vars

(* Previews: messages of 2, 100 and 101 characters sent to either room or  *)
(* to no room, and the renaming of their senders, from the state reached   *)
(* by two createChatroom calls.                                            *)
NextPreview ==
    \/ CallSendMessage({ContentHi, Content100, Content101}, {"Alice"}, {0, 1, 2}, {"u1"},
                       {None}, PreviewMaxMessages)
    \/ CallUpdateUsername({"u1", "creator"}, {"Bob"})

SpecPreview == InitTwoRooms /\ [][NextPreview]_vars

(* Rewrites: the renaming and re-avataring (to an avatar and to null) of   *)
(* two identities whose messages, replies included, lie in both rooms,     *)
(* next to a reaction and the clock, from the state reached by two         *)
(* createChatroom calls.                                                   *)
NextRewrites ==
    \/ Tick({1}, RewriteMaxTime)
    \/ CallSendMessage({ContentHi}, {"Alice"}, {0, 1}, {"u1"}, {Some(0)},
                       RewriteMaxMessages)
    \/ CallUpdateUsername({"u1", "creator"}, {"Bob"})
    \/ CallUpdateAvatar({"u1", "creator"}, Avatars)
    \/ CallAddReaction({0}, {"thumbsup"}, {"u2"})

SpecRewrites == InitTwoRooms /\ [][NextRewrites]_vars

(* Names: messages sent under either name by "u1" and by the identity of   *)
(* the seed messages, the creation of rooms, and renamings to names under  *)
(* one of which no message is sent.                                        *)
NextNames ==
    \/ CallCreateChatroom({RoomMovie}, NameMaxRooms, NameMaxMessages)
    \/ CallSendMessage({ContentHi}, SenderNames, {0, 1}, {"u1", "creator"}, {None},
                       NameMaxMessages)
    \/ CallUpdateUsername({"u1", "creator"}, {"Bob", "Carol"})

SpecNames == Init /\ [][NextNames]_vars

(* Sweeps: the touches of two identities in two rooms, the sweep and a     *)
(* clock that stops at ages 0, 1, 60 and 61, from the state reached by     *)
(* two createChatroom calls.                                               *)
NextSweep ==
    \/ Tick({60, 61}, SweepMaxTime)
    \/ CallSendMessage({ContentHi}, {"Alice"}, {0}, {"u1"}, {None}, SweepMaxMessages)
    \/ CallIncrementViewCount({0, 1}, Identities, SweepMaxViews)
    \/ CallCleanup({"admin"})

SpecSweep == InitTwoRooms /\ [][NextSweep]_vars

(* Isolation: the touches of two rooms next to every call that writes     *)
(* another table, and the clock, from the empty state.                     *)
NextIsolation ==
    \/ Tick({61}, IsoMaxTime)
    \/ CallCreateChatroom({RoomMovie}, IsoMaxRooms, IsoMaxMessages)
    \/ CallSendMessage({ContentHi}, {"Alice"}, {0, 1}, {"u1"}, {None}, IsoMaxMessages)
    \/ CallIncrementViewCount({0}, {"u2"}, IsoMaxViews)
    \/ CallPinVideo({0}, {0})
    \/ CallUnpinVideo({0})
    \/ CallUpdateUsername({"u1"}, {"Bob"})
    \/ CallUpdateAvatar({"u1"}, {Some("a1")})
    \/ CallAddReaction({0}, {"thumbsup"}, {"u1"})
    \/ CallRemoveReaction({0}, {"thumbsup"}, {"u1"})

SpecIsolation == Init /\ [][NextIsolation]_vars

(* Reactions with three emojis, so that a message has two entries beside   *)
(* the one a call is about: one identity on message 0 with every emoji, a  *)
(* second identity on both messages with one.                              *)
NextEmojis ==
    \/ CallAddReaction({0}, EmojisThree, {"u1"})
    \/ CallAddReaction(ReactionIds, {"fire"}, {"u2"})
    \/ CallRemoveReaction({0}, EmojisThree, {"u1"})
    \/ CallRemoveReaction(ReactionIds, {"fire"}, {"u2"})

SpecEmojis == Init /\ [][NextEmojis]_vars

(* Expiry: touches of both rooms up to time ExpLastTouch, sweeps at any    *)
(* time or never, and a clock that keeps advancing, by 60 or 61, until no  *)
(* touch can be less than two steps old.                                   *)
ExpMaxTime == ExpLastTouch + 121

NextExpiry ==
    \/ Tick({60, 61}, ExpMaxTime)
    \/ now <= ExpLastTouch
          /\ CallSendMessage({ContentHi}, {"Alice"}, {0}, {"u1"}, {None}, ExpMaxMessages)
    \/ now <= ExpLastTouch /\ CallIncrementViewCount({0, 1}, {"u2"}, ExpMaxViews)
    \/ CallCleanup({"admin"})

SpecExpiry ==
    InitTwoRooms /\ [][NextExpiry]_vars /\ WF_vars(Tick({60, 61}, ExpMaxTime))

(* Every call, on small inputs. *)
Next ==
    \/ Tick({61}, FullMaxTime)
    \/ CallCreateChatroom({RoomMovie, RoomCats, RoomBadMedia}, FullMaxRooms, FullMaxMessages)
    \/ CallSendMessage({<<>>, ContentHi}, {"Alice"}, 0..FullMaxRooms, {"u1"}, {None},
                       FullMaxMessages)
    \/ CallIncrementViewCount(0..FullMaxRooms, {"u1"}, FullMaxViews)
    \/ CallPinVideo(0..FullMaxRooms, {0})
    \/ CallUnpinVideo(0..FullMaxRooms)
    \/ CallUpdateUsername({"u1"}, {"Bob"})
    \/ CallUpdateAvatar({"u1"}, {Some("a1")})
    \/ CallCleanup(Callers)
    \/ CallAddReaction({1}, {"thumbsup"}, {"u1"})
    \/ CallRemoveReaction({1}, {"thumbsup"}, {"u1"})

Spec == Init /\ [][Next]_vars

(* ============================ properties ============================== *)

(* A step taken by a call of method op that did not trap. *)
Succeeded(op) == last'.op = op /\ last'.err = Ok

(* The places <<chatroomId, index>> of the stored messages, and their ids. *)
MessagePlaces ==
    UNION {{<<r, i>> : i \in 1..Len(messages[r])} : r \in DOMAIN messages}
StoredMessages == {messages[p[1]][p[2]] : p \in MessagePlaces}
MessageIds == {m.id : m \in StoredMessages}

(* The presence record of identity userId in chatroom r, as a set of times. *)
PresenceTimes(r, userId) ==
    {activeUsersForRoom(r)[i].lastActive :
        i \in {j \in 1..Len(activeUsersForRoom(r)) : activeUsersForRoom(r)[j].userId = userId}}

(* C1: a successful sendMessage applies its three effects in one step: the *)
(* new message (id = the old nextMessageId, in the room and from the       *)
(* identity of the call) is the last element of getMessages(room), the     *)
(* elements before it being those of before; the room's messageCount is    *)
(* one more; the presence record of (room, identity) is the current time.  *)
(* Nothing else of the room, and no other room, changes.                   *)
C1_SendMessageAtomic ==
    [][Succeeded("sendMessage") =>
        \E r \in DOMAIN chatrooms, identity \in Identities :
           LET before == getMessages(r)
               after == getMessages(r)'
           IN /\ last'.args[1] = r /\ last'.args[2] = identity
              /\ Len(after) = Len(before) + 1
              /\ SubSeq(after, 1, Len(before)) = before
              /\ after[Len(after)].id = nextMessageId
              /\ after[Len(after)].chatroomId = r
              /\ after[Len(after)].senderId = identity
              /\ chatrooms'[r].messageCount = chatrooms[r].messageCount + 1
              /\ chatrooms' = [chatrooms EXCEPT ![r].messageCount = @ + 1]
              /\ PresenceTimes(r, identity)' = {now'}
              /\ \A other \in DOMAIN messages \ {r} : messages'[other] = messages[other]
              /\ \A other \in DOMAIN activeUsers \ {r} :
                    activeUsers'[other] = activeUsers[other]
    ]_vars

(* C1 witness: a sendMessage has just succeeded at time 61 in a room that  *)
(* now holds the seed message and the new one, counts 2 messages and has   *)
(* the sender present at 61.                                               *)
C1_Witness ==
    /\ last.op = "sendMessage" /\ last.err = Ok
    /\ now = 61
    /\ LET r == last.args[1]
       IN /\ Len(getMessages(r)) = 2
          /\ chatrooms[r].messageCount = 2
          /\ PresenceTimes(r, last.args[2]) = {61}

(* C2: message ids are pairwise distinct over all rooms (seed messages     *)
(* included) and below nextMessageId, and every id that a step adds is     *)
(* larger than every id stored or handed out before it.                    *)
C2_MessageIdsUniqueIncreasing ==
    /\ [](/\ \A p, q \in MessagePlaces :
                messages[p[1]][p[2]].id = messages[q[1]][q[2]].id => p = q
          /\ \A id \in MessageIds : id < nextMessageId)
    /\ [][/\ nextMessageId' >= nextMessageId
          /\ \A id \in MessageIds' \ MessageIds :
                /\ id >= nextMessageId
                /\ \A old \in MessageIds : id > old]_vars

(* C2 witness: three messages stored in two rooms, the last by sendMessage. *)
C2_Witness ==
    /\ last.op = "sendMessage" /\ last.err = Ok
    /\ Cardinality(DOMAIN messages) = 2
    /\ MessageIds = {0, 1, 2}

(* C3: chatroom ids start at 0, a successful createChatroom returns the    *)
(* old nextChatroomId and advances it by one, no other step (a failed      *)
(* createChatroom included) changes it, and the rooms are exactly          *)
(* 0 .. nextChatroomId - 1.                                                *)
C3_ChatroomIdsSequential ==
    /\ nextChatroomId = 0
    /\ [](/\ DOMAIN chatrooms = 0..(nextChatroomId - 1)
          /\ \A r \in DOMAIN chatrooms : chatrooms[r].id = r)
    /\ [][IF Succeeded("createChatroom")
          THEN /\ last'.ret = Some(nextChatroomId)
               /\ nextChatroomId' = nextChatroomId + 1
          ELSE nextChatroomId' = nextChatroomId]_vars

(* C3 witness: the second successful createChatroom has returned 1. *)
C3_Witness ==
    /\ last.op = "createChatroom" /\ last.err = Ok
    /\ last.ret = Some(1)
    /\ nextChatroomId = 2

(* C4: after updateUsernameRetroactively(id, name) every message of every  *)
(* room with senderId = id has sender = name, and every other message has  *)
(* the sender it had before.                                               *)
C4_RenameComplete ==
    [][Succeeded("updateUsernameRetroactively") =>
        LET id == last'.args[1]
            name == last'.args[2]
        IN /\ MessagePlaces' = MessagePlaces
           /\ \A p \in MessagePlaces :
                LET old == messages[p[1]][p[2]]
                    new == messages'[p[1]][p[2]]
                IN /\ new.senderId = old.senderId
                   /\ old.senderId = id => new.sender = name
                   /\ old.senderId # id => new.sender = old.sender
    ]_vars

(* C4 witness: updateUsernameRetroactively("creator", "Bob") has renamed   *)
(* the seed messages of two rooms and left a message of u2 as it was.      *)
C4_Witness ==
    /\ last.op = "updateUsernameRetroactively"
    /\ last.args = <<"creator", "Bob">>
    /\ Cardinality(DOMAIN messages) = 2
    /\ \A r \in DOMAIN messages :
          \E i \in 1..Len(messages[r]) :
              messages[r][i].senderId = "creator" /\ messages[r][i].sender = "Bob"
    /\ \E p \in MessagePlaces :
          /\ messages[p[1]][p[2]].senderId = "u2"
          /\ messages[p[1]][p[2]].sender = "Alice"

(* C5: a retroactive rewrite is one step.  Over any step, either every     *)
(* stored message keeps its sender and avatarUrl (the pre-rewrite form), or *)
(* the step is a rewrite for an identity and every message of that         *)
(* identity, in every room, carries the new value (the post-rewrite form)  *)
(* while the messages of the other identities keep theirs.                 *)
C5_RewriteAtomic ==
    [][\/ \A m \in StoredMessages :
            \E kept \in StoredMessages' :
                /\ kept.id = m.id /\ kept.chatroomId = m.chatroomId
                /\ kept.sender = m.sender /\ kept.avatarUrl = m.avatarUrl
       \/ /\ Succeeded("updateUsernameRetroactively")
          /\ MessagePlaces' = MessagePlaces
          /\ \A p \in MessagePlaces :
                LET old == messages[p[1]][p[2]]
                    new == messages'[p[1]][p[2]]
                IN new = IF old.senderId = last'.args[1]
                         THEN [old EXCEPT !.sender = last'.args[2]] ELSE old
       \/ /\ Succeeded("updateAvatarRetroactively")
          /\ MessagePlaces' = MessagePlaces
          /\ \A p \in MessagePlaces :
                LET old == messages[p[1]][p[2]]
                    new == messages'[p[1]][p[2]]
                IN new = IF old.senderId = last'.args[1]
                         THEN [old EXCEPT !.avatarUrl = last'.args[2]] ELSE old
    ]_vars

(* C5 witness: updateAvatarRetroactively("u1", ?"a1") has just rewritten   *)
(* two messages of u1 in one room, next to a seed message it left alone.   *)
C5_Witness ==
    /\ last.op = "updateAvatarRetroactively"
    /\ last.args = <<"u1", Some("a1")>>
    /\ \E r \in DOMAIN messages :
          /\ Len(messages[r]) = 3
          /\ messages[r][1].senderId = "u1" /\ messages[r][1].avatarUrl = Some("a1")
          /\ messages[r][2].senderId = "u1" /\ messages[r][2].avatarUrl = Some("a1")
          /\ messages[r][3].senderId = "creator" /\ messages[r][3].avatarUrl = None

(* C6: the presence list of a room holds at most one record per identity. *)
C6_OnePresenceRecordPerIdentity ==
    \A r \in DOMAIN activeUsers :
        \A i, j \in 1..Len(activeUsers[r]) :
            activeUsers[r][i].userId = activeUsers[r][j].userId => i = j

(* C6 witness: at time 0 (where the sweep removes nothing) a room has      *)
(* counted two views and received a message, and holds one record: the     *)
(* same identity touched it three times.                                   *)
C6_Witness ==
    /\ now = 0
    /\ \E r \in DOMAIN chatrooms :
          /\ chatrooms[r].viewCount = 2
          /\ chatrooms[r].messageCount = 2
          /\ Len(activeUsersForRoom(r)) = 1

(* C7: when the presence list of a room holds the single touch t0,         *)
(* getChatroom reports isLive exactly when now and t0 are at most 60       *)
(* seconds apart, the boundary included.                                   *)
C7_LivenessWindow ==
    \A r \in DOMAIN chatrooms :
        Len(activeUsersForRoom(r)) = 1 =>
            LET t0 == activeUsersForRoom(r)[1].lastActive
                view == TheVal(getChatroom(r))
            IN /\ (now - t0 <= 60 /\ t0 - now <= 60) => view.isLive = TRUE
               /\ (now - t0 > 60 \/ t0 - now > 60) => view.isLive = FALSE

(* C7 witness: a room whose only touch was at 0 is read at 60 and is live, *)
(* next to a room with no touch.                                           *)
C7_Witness ==
    /\ now = 60
    /\ Len(activeUsersForRoom(0)) = 1
    /\ activeUsersForRoom(0)[1].lastActive = 0
    /\ TheVal(getChatroom(0)).isLive

(* The views that the four queries return in this state. *)
SearchTerms == {<<"F", "U", "N">>, TopicCats, <<"z">>}
FilterCategories == {<<"F", "U", "N">>, TopicCats}
Range(s) == {s[i] : i \in 1..Len(s)}
AllViews ==
    {TheVal(getChatroom(r)) : r \in DOMAIN chatrooms}
    \cup Range(getChatrooms)
    \cup UNION {Range(searchChatrooms(t)) : t \in SearchTerms}
    \cup UNION {Range(filterChatroomsByCategory(c)) : c \in FilterCategories}

(* The identities with a presence record of room r within 60 s of now. *)
LiveIdentities(r) ==
    {u \in {activeUsersForRoom(r)[i].userId : i \in 1..Len(activeUsersForRoom(r))} :
        \E t \in PresenceTimes(r, u) : now - t <= 60 /\ t - now <= 60}

(* C8: every view of a room, from getChatroom, getChatrooms, searchChatrooms *)
(* or filterChatroomsByCategory, carries the same activeUserCount, the      *)
(* number of distinct identities whose record in that room is within 60 s   *)
(* of the read time, and isLive = (activeUserCount > 0).                    *)
C8_ViewsAgreeOnLiveCount ==
    \A view \in AllViews :
        /\ view.id \in DOMAIN chatrooms
        /\ view.activeUserCount = Cardinality(LiveIdentities(view.id))
        /\ view.isLive = (view.activeUserCount > 0)

(* C8 witness: room 1 holds a stale record and a live one; each of the     *)
(* four queries returns its view, with activeUserCount 1.                  *)
C8_Witness ==
    /\ Len(activeUsersForRoom(1)) = 2
    /\ TheVal(getChatroom(1)).activeUserCount = 1
    /\ getChatrooms[2].id = 1 /\ getChatrooms[2].activeUserCount = 1
    /\ Len(searchChatrooms(TopicCats)) = 1
    /\ searchChatrooms(TopicCats)[1].id = 1
    /\ searchChatrooms(TopicCats)[1].activeUserCount = 1
    /\ Len(filterChatroomsByCategory(<<"F", "U", "N">>)) = 2
    /\ filterChatroomsByCategory(<<"F", "U", "N">>)[2].id = 1
    /\ filterChatroomsByCategory(<<"F", "U", "N">>)[2].activeUserCount = 1

(* C9: every reaction entry's count is the number of distinct identities  *)
(* in its users list.                                                      *)
C9_CountIsNumberOfReactors ==
    \A m \in DOMAIN reactions :
        \A i \in 1..Len(reactions[m]) :
            reactions[m][i].count =
                Cardinality({reactions[m][i].users[k] : k \in 1..Len(reactions[m][i].users)})

(* C10: addReaction twice in a row gives the reaction table that           *)
(* addReaction once gives: entries, counts, users and order.               *)
C10_AddReactionIdempotent ==
    \A m \in ReactionIds, e \in Emojis, u \in Identities :
        addedReactions(addedReactions(reactions, m, e, u), m, e, u)
            = addedReactions(reactions, m, e, u)

(* C10 witness: addReaction(m, e, u) has just run on a message that holds  *)
(* two emoji entries, and u is among the two reactors of e.                *)
C10_Witness ==
    /\ last.op = "addReaction"
    /\ LET m == last.args[1]
           e == last.args[2]
           u == last.args[3]
       IN /\ Len(messageReactions(m)) = 2
          /\ \E i \in 1..2 :
                /\ messageReactions(m)[i].emoji = e
                /\ messageReactions(m)[i].count = 2
                /\ Len(messageReactions(m)[i].users) = 2
                /\ hasReacted(messageReactions(m)[i], u)

(* What getReactions(m) says of emoji e when the reaction table is rs: the *)
(* set of <<count, identities>> of its entries (empty when e is absent).   *)
EmojiView(rs, m, e) ==
    LET l == IF m \in DOMAIN rs THEN ListToArray(rs[m]) ELSE <<>>
    IN {<<l[i].count, Range(l[i].users)>> : i \in {j \in 1..Len(l) : l[j].emoji = e}}

(* Identity u is among the reactors of emoji e on message m in table rs. *)
Reacted(rs, m, e, u) == \E v \in EmojiView(rs, m, e) : u \in v[2]

(* C11: where identity u has not reacted with emoji e on message m,         *)
(* addReaction(m, e, u) then removeReaction(m, e, u) gives back, for every  *)
(* emoji, the count and the identity set of before; an emoji e that had no  *)
(* entry before is then present with count 0 and no identity.               *)
C11_AddThenRemoveRestores ==
    \A m \in ReactionIds, e \in Emojis, u \in Identities :
        ~Reacted(reactions, m, e, u) =>
            LET back == removedReactions(addedReactions(reactions, m, e, u), m, e, u)
            IN /\ \A f \in Emojis \ {e} : EmojiView(back, m, f) = EmojiView(reactions, m, f)
               /\ IF EmojiView(reactions, m, e) # {}
                  THEN EmojiView(back, m, e) = EmojiView(reactions, m, e)
                  ELSE EmojiView(back, m, e) = {<<0, {}>>}
               /\ \A other \in DOMAIN reactions \ {m} : back[other] = reactions[other]

(* C11 witness: removeReaction(m, e, u) has just run after an addReaction  *)
(* of the same triple: e is the newest entry of m, with count 0 and no     *)
(* identity, ahead of an entry of another emoji with its one reactor.      *)
C11_Witness ==
    /\ last.op = "removeReaction"
    /\ LET m == last.args[1]
           e == last.args[2]
       IN /\ Len(messageReactions(m)) = 2
          /\ messageReactions(m)[1].emoji = e
          /\ messageReactions(m)[1].count = 0
          /\ messageReactions(m)[1].users = ListNil
          /\ messageReactions(m)[2].count = 1
          /\ Len(messageReactions(m)[2].users) = 1

(* C12: getReactions(m) holds no entry whose list of reacting identities   *)
(* is empty.                                                               *)
C12_NoEntryWithoutReactors ==
    \A m \in ReactionIds :
        \A i \in 1..Len(getReactions(m)) : getReactions(m)[i].users # ListNil

(* C13: removeReaction(m, e, u) by an identity u that is not among the     *)
(* reactors of e on m leaves what getReactions(m) returns as it was.       *)
C13_RemoveByNonReactorChangesNothing ==
    [][\A m \in ReactionIds, e \in Emojis, u \in Identities :
          (/\ last'.op = "removeReaction"
           /\ last'.args = <<m, e, u>>
           /\ ~Reacted(reactions, m, e, u))
          => getReactions(m)' = getReactions(m)]_vars

(* The arguments <<topic, description, mediaUrl, mediaType, category>> that *)
(* createChatroom accepts.                                                  *)
ValidRoomArgs(a) ==
    /\ TextSize(a[1]) # 0 /\ TextSize(a[2]) # 0
    /\ TextSize(a[3]) # 0 /\ TextSize(a[5]) # 0
    /\ validateMediaUrl(a[3], a[4])

(* The tables and counters of the actor, the clock aside. *)
Tables == <<nextMessageId, nextChatroomId, chatrooms, messages, activeUsers, reactions>>

(* C14: createChatroom on non-empty topic, description, mediaUrl and       *)
(* category and a media reference that validateMediaUrl accepts succeeds,  *)
(* and the room r it returns has a view with messageCount 1, viewCount 0,  *)
(* no pinned message, isLive FALSE and activeUserCount 0, and a message    *)
(* log of exactly one message: senderId "creator", sender "Creator", no    *)
(* replyToMessageId, and the mediaUrl and mediaType of the room.           *)
C14_CreateChatroomSeedsRoom ==
    [][(last'.op = "createChatroom" /\ ValidRoomArgs(last'.args)) =>
        /\ last'.err = Ok
        /\ \E r \in DOMAIN chatrooms' \ DOMAIN chatrooms :
            LET view == TheVal(getChatroom(r))'
                log == getMessages(r)'
            IN /\ last'.ret = Some(r)
               /\ view.id = r
               /\ view.messageCount = 1
               /\ view.viewCount = 0
               /\ view.pinnedVideoId = None
               /\ view.isLive = FALSE
               /\ view.activeUserCount = 0
               /\ view.mediaUrl = last'.args[3]
               /\ view.mediaType = last'.args[4]
               /\ getPinnedVideo(r)' = None
               /\ Len(log) = 1
               /\ log[1].senderId = "creator"
               /\ log[1].sender = "Creator"
               /\ log[1].replyToMessageId = None
               /\ log[1].chatroomId = r
               /\ log[1].mediaUrl = Some(view.mediaUrl)
               /\ log[1].mediaType = Some(view.mediaType)
    ]_vars

(* C14 witness: createChatroom(RoomCats) has just returned 1 at time 61,   *)
(* when room 0 has a viewer; room 1 has its seed message, counts one       *)
(* message and no view, and is not live.                                   *)
C14_Witness ==
    /\ last.op = "createChatroom" /\ last.err = Ok
    /\ last.ret = Some(1) /\ last.args = RoomCats
    /\ now = 61
    /\ Len(activeUsersForRoom(0)) = 1
    /\ Len(getMessages(1)) = 1
    /\ getMessages(1)[1].mediaUrl = Some(UrlImage)
    /\ TheVal(getChatroom(1)).messageCount = 1
    /\ TheVal(getChatroom(1)).viewCount = 0
    /\ ~TheVal(getChatroom(1)).isLive

(* C15: createChatroom traps whenever topic, description, mediaUrl or      *)
(* category is empty or validateMediaUrl(mediaUrl, mediaType) is false,    *)
(* and the call that traps changes no table and no counter.                *)
C15_CreateChatroomRejectsInvalid ==
    [][(last'.op = "createChatroom" /\ ~ValidRoomArgs(last'.args)) =>
        /\ last'.err \in {TrapEmptyTopic, TrapNoMediaUrl, TrapNoCategory, TrapInvalidMedia}
        /\ last'.ret = None
        /\ UNCHANGED Tables
    ]_vars

(* C15 witness: with room 0 in place, createChatroom with an empty         *)
(* description has trapped and the counters stand where they stood.        *)
C15_Witness ==
    /\ last.op = "createChatroom" /\ last.err = TrapEmptyTopic
    /\ last.args = RoomNoDescription
    /\ nextChatroomId = 1 /\ nextMessageId = 1
    /\ DOMAIN chatrooms = {0}

(* C16: sendMessage with empty content traps with the empty-content error, *)
(* whether the room exists or not, and changes no table and no counter.    *)
C16_EmptyContentRejectedFirst ==
    [][(last'.op = "sendMessage" /\ TextSize(last'.args[3]) = 0) =>
        /\ last'.err = TrapEmptyContent
        /\ UNCHANGED Tables
    ]_vars

(* C16 witness: with room 0 in place, sendMessage with empty content to    *)
(* room 1, which does not exist, has trapped on the content.               *)
C16_Witness ==
    /\ last.op = "sendMessage" /\ last.err = TrapEmptyContent
    /\ last.args[3] = <<>>
    /\ last.args[1] = 1
    /\ DOMAIN chatrooms = {0}

(* C17: sendMessage with non-empty content, incrementViewCount, pinVideo   *)
(* and unpinVideo on a chatroom id that no createChatroom returned trap    *)
(* with "Chatroom does not exist" and change no table and no counter; the  *)
(* message index and the presence table have no entry for such an id.      *)
C17_UnknownRoomRejected ==
    /\ [](/\ DOMAIN messages \subseteq DOMAIN chatrooms
          /\ DOMAIN activeUsers \subseteq DOMAIN chatrooms
          /\ DOMAIN chatrooms = 0..(nextChatroomId - 1))
    /\ [][(/\ last'.op \in {"sendMessage", "incrementViewCount", "pinVideo", "unpinVideo"}
           /\ last'.args[1] \notin DOMAIN chatrooms
           /\ last'.op = "sendMessage" => TextSize(last'.args[3]) # 0) =>
            /\ last'.err = TrapNoChatroom
            /\ UNCHANGED Tables
         ]_vars

(* C17 witness: with room 0 in place and viewed, incrementViewCount on id  *)
(* 1 has trapped; the presence table holds room 0 alone.                   *)
C17_Witness ==
    /\ last.op = "incrementViewCount" /\ last.err = TrapNoChatroom
    /\ last.args[1] = 1
    /\ DOMAIN chatrooms = {0}
    /\ DOMAIN activeUsers = {0}

(* The ids of the messages of a list, in its order. *)
IdsOf(l) == [i \in 1..Len(l) |-> l[i].id]

(* C18: getMessages(r) loses no message and keeps insertion order: over    *)
(* every step that writes the tables the ids it returned are a prefix of   *)
(* the ids it returns, so no message goes and no two change places (a      *)
(* rewrite changes senders, not ids); the ids in the list strictly         *)
(* increase, the timestamps never decrease, the first message is the seed  *)
(* message of the room, and the list is as long as the room's count of     *)
(* appended messages.                                                      *)
C18_GetMessagesChronological ==
    /\ [](\A r \in DOMAIN chatrooms :
            LET l == getMessages(r)
            IN /\ Len(l) = chatrooms[r].messageCount
               /\ Len(l) >= 1
               /\ l[1].senderId = "creator" /\ l[1].content = seedContent
               /\ \A i, j \in 1..Len(l) :
                    i < j => /\ l[i].id < l[j].id
                             /\ l[i].timestamp <= l[j].timestamp)
    /\ [][\/ UNCHANGED <<chatrooms, messages>>
          \/ \A r \in DOMAIN chatrooms :
                /\ r \in DOMAIN chatrooms'
                /\ Len(getMessages(r)') >= Len(getMessages(r))
                /\ SubSeq(IdsOf(getMessages(r)'), 1, Len(getMessages(r)))
                      = IdsOf(getMessages(r))
         ]_vars

(* C18 witness: after a rename, a room reads back its seed message of time *)
(* 0 and then two messages sent at time 61, in that order.                 *)
C18_Witness ==
    /\ last.op = "updateUsernameRetroactively"
    /\ \E r \in DOMAIN chatrooms :
          /\ Len(getMessages(r)) = 3
          /\ getMessages(r)[1].senderId = "creator"
          /\ getMessages(r)[1].timestamp = 0
          /\ getMessages(r)[2].timestamp = 61
          /\ getMessages(r)[3].timestamp = 61
          /\ getMessages(r)[2].id < getMessages(r)[3].id

(* The parents that the replies of the model name, and one more id. *)
ParentIds == 0..ThreadMaxMessages

(* C19: getReplies(r, p) returns the messages of room r whose              *)
(* replyToMessageId is p, each once and no other message (no reply to a    *)
(* reply of p, no message of another room), with increasing ids, that is   *)
(* in the order in which they were sent.                                   *)
C19_GetRepliesDirectChildren ==
    \A r \in 0..2, p \in ParentIds :
        LET replies == getReplies(r, p)
        IN /\ Range(replies) =
                {m \in StoredMessages : m.chatroomId = r /\ m.replyToMessageId = Some(p)}
           /\ \A i, j \in 1..Len(replies) :
                i < j => /\ replies[i].id < replies[j].id
                         /\ replies[i].timestamp <= replies[j].timestamp
           /\ replies = SelectSeq(getMessages(r),
                                  LAMBDA m : m.replyToMessageId = Some(p))

(* C19 witness: room 0 holds two replies to message 0 and between them a   *)
(* reply to the first of these; room 1 holds a reply to message 0 too.     *)
(* getReplies(0, 0) is the two direct replies of room 0, in the order sent. *)
C19_Witness ==
    /\ Len(getReplies(0, 0)) = 2
    /\ Len(getReplies(0, 2)) = 1
    /\ Len(getReplies(1, 0)) = 1
    /\ getReplies(0, 0)[1].id = 2
    /\ getReplies(0, 0)[2].id > getReplies(0, 2)[1].id
    /\ getReplies(0, 0)[1].timestamp < getReplies(0, 0)[2].timestamp

(* C20: a successful incrementViewCount(r, u) adds exactly 1 to the        *)
(* viewCount of room r and changes nothing else of any room (messageCount  *)
(* and the pinned message stay), sets the one presence record of (r, u) to *)
(* the current time, keeps the records of the other identities, and leaves *)
(* the message logs and the counters as they were.                         *)
C20_ViewCountsAndTouches ==
    [][Succeeded("incrementViewCount") =>
        \E r \in DOMAIN chatrooms, u \in Identities :
            /\ last'.args = <<r, u>>
            /\ chatrooms'[r].viewCount = chatrooms[r].viewCount + 1
            /\ chatrooms'[r].messageCount = chatrooms[r].messageCount
            /\ chatrooms'[r].pinnedVideoId = chatrooms[r].pinnedVideoId
            /\ chatrooms' = [chatrooms EXCEPT ![r].viewCount = @ + 1]
            /\ PresenceTimes(r, u)' = {now'}
            /\ now' = now
            /\ \A v \in Identities \ {u} : PresenceTimes(r, v)' = PresenceTimes(r, v)
            /\ \A other \in DOMAIN activeUsers \ {r} :
                  activeUsers'[other] = activeUsers[other]
            /\ UNCHANGED <<messages, nextMessageId, nextChatroomId, reactions>>
    ]_vars

(* C20 witness: the same identity has viewed a room at 0 and again at 60:  *)
(* the room counts two views and holds its one record, of time 60, next to *)
(* the record of the other identity, who sent a message.                   *)
C20_Witness ==
    /\ last.op = "incrementViewCount" /\ last.err = Ok
    /\ now = 60
    /\ LET r == last.args[1]
           u == last.args[2]
       IN /\ chatrooms[r].viewCount = 2
          /\ chatrooms[r].messageCount = 2
          /\ PresenceTimes(r, u) = {60}
          /\ \E v \in Identities \ {u} : PresenceTimes(r, v) = {0}

(* C21: cleanupInactiveUsers by a caller without the #admin permission     *)
(* traps with the unauthorized error and changes no table, no counter and  *)
(* not the clock.                                                          *)
C21_CleanupNeedsAdmin ==
    [][(last'.op = "cleanupInactiveUsers" /\ ~hasPermission(last'.args[1])) =>
        /\ last'.err = TrapUnauthorized
        /\ UNCHANGED Tables
        /\ now' = now
    ]_vars

(* C21 witness: at time 61 a caller without the permission has been turned *)
(* away, and the record of time 0 that a sweep would drop is still there.  *)
C21_Witness ==
    /\ last.op = "cleanupInactiveUsers" /\ last.err = TrapUnauthorized
    /\ last.args = <<"anon">>
    /\ now = 61
    /\ \E r \in DOMAIN activeUsers, u \in Identities : PresenceTimes(r, u) = {0}

(* The presence record rec is within 60 seconds of time t. *)
WithinWindow(rec, t) == rec.lastActive - t <= 60 /\ t - rec.lastActive <= 60

(* C22: after a successful cleanupInactiveUsers no room holds a presence   *)
(* record more than 60 seconds from now; the records of every room are     *)
(* those it held within the window, each with its lastActive; chatrooms,   *)
(* messages, reactions and the counters are as they were.                  *)
C22_SweepDropsExactlyStale ==
    [][Succeeded("cleanupInactiveUsers") =>
        /\ DOMAIN activeUsers' = DOMAIN activeUsers
        /\ \A r \in DOMAIN activeUsers :
            /\ \A i \in 1..Len(activeUsers'[r]) : WithinWindow(activeUsers'[r][i], now')
            /\ Range(activeUsers'[r])
                  = {rec \in Range(activeUsers[r]) : WithinWindow(rec, now)}
            /\ Len(activeUsers'[r]) = Cardinality(Range(activeUsers'[r]))
        /\ UNCHANGED <<chatrooms, messages, reactions, nextMessageId, nextChatroomId, now>>
    ]_vars

(* C22 witness: the sweep has just run at time 61 on a room in which one   *)
(* identity sent a message at time 0 and has no record any more, while the *)
(* other identity has its record of time 61.                               *)
C22_Witness ==
    /\ last.op = "cleanupInactiveUsers" /\ last.err = Ok
    /\ now = 61
    /\ \E r \in DOMAIN activeUsers, u, v \in Identities :
          /\ \E i \in 1..Len(messages[r]) :
                messages[r][i].senderId = u /\ messages[r][i].timestamp = 0
          /\ PresenceTimes(r, u) = {}
          /\ PresenceTimes(r, v) = {61}

(* C23: a successful pinVideo(r, m) makes getPinnedVideo(r) return m, for  *)
(* any m (the id of a message of the room, of another room or of none); a  *)
(* successful unpinVideo(r) makes it return null; every other step leaves  *)
(* what getPinnedVideo(r) returns as it was.                               *)
C23_PinSetsAndKeeps ==
    [][\A r \in DOMAIN chatrooms :
        LET pinned == getPinnedVideo(r)'
        IN IF last'.op = "pinVideo" /\ last'.err = Ok /\ last'.args[1] = r
           THEN pinned = Some(last'.args[2])
           ELSE IF last'.op = "unpinVideo" /\ last'.err = Ok /\ last'.args[1] = r
           THEN pinned = None
           ELSE pinned = getPinnedVideo(r)
    ]_vars

(* C23 witness: room 0 has id 7 pinned, the id of no message, and room 1   *)
(* the id 0; since its pin room 0 has been viewed and written to, and the  *)
(* last call was a rename.                                                 *)
C23_Witness ==
    /\ last.op = "updateUsernameRetroactively"
    /\ getPinnedVideo(0) = Some(7)
    /\ getPinnedVideo(1) = Some(0)
    /\ chatrooms[0].viewCount = 1
    /\ chatrooms[0].messageCount = 2

(* The ids of the messages in the log of room r. *)
LogIds(r) == {getMessages(r)[i].id : i \in 1..Len(getMessages(r))}

(* The pinned id of room r is set and is the id of a message of its log. *)
PinnedInLog(r) ==
    /\ IsSome(getPinnedVideo(r))
    /\ TheVal(getPinnedVideo(r)) \in LogIds(r)

(* C24 as claimed: the id that a successful pinVideo(r, m) pins is the id  *)
(* of a message that is in the log of room r at the time of the call.      *)
C24_PinnedWasInLogAtPinTime ==
    [][\A r \in DOMAIN chatrooms :
        (last'.op = "pinVideo" /\ last'.err = Ok /\ last'.args[1] = r)
        => last'.args[2] \in LogIds(r)
    ]_vars

(* C24 amended: pinVideo does not check the id.  The pinned id of a room   *)
(* is the id of a message of the room's log after pinVideo(r, m) exactly   *)
(* when m is the id of a message of the log of r at the time of the call,  *)
(* and a pinned id that is the id of a message of the log remains one for  *)
(* as long as it stays pinned.                                             *)
C24_PinnedInLogIffCallerSaidSo ==
    [][\A r \in DOMAIN chatrooms :
        /\ (last'.op = "pinVideo" /\ last'.err = Ok /\ last'.args[1] = r)
           => (PinnedInLog(r)' <=> last'.args[2] \in LogIds(r))
        /\ (PinnedInLog(r) /\ getPinnedVideo(r)' = getPinnedVideo(r))
           => PinnedInLog(r)'
    ]_vars

(* C24 witness: pinVideo(1, 0) has just pinned in room 1 the id of the     *)
(* seed message of room 0, while room 0 has its own seed message pinned    *)
(* and has received a message since.                                       *)
C24_Witness ==
    /\ last.op = "pinVideo" /\ last.err = Ok /\ last.args = <<1, 0>>
    /\ ~PinnedInLog(1)
    /\ PinnedInLog(0)
    /\ Len(getMessages(0)) = 2

(* C30: over every step every chatroom stays in the table with its id,     *)
(* topic, description, mediaUrl, mediaType, createdAt and category, and    *)
(* its messageCount and viewCount do not decrease.                         *)
C30_ChatroomFieldsFrozen ==
    [][\A r \in DOMAIN chatrooms :
        /\ r \in DOMAIN chatrooms'
        /\ chatrooms'[r].id = chatrooms[r].id
        /\ chatrooms'[r].topic = chatrooms[r].topic
        /\ chatrooms'[r].description = chatrooms[r].description
        /\ chatrooms'[r].mediaUrl = chatrooms[r].mediaUrl
        /\ chatrooms'[r].mediaType = chatrooms[r].mediaType
        /\ chatrooms'[r].createdAt = chatrooms[r].createdAt
        /\ chatrooms'[r].category = chatrooms[r].category
        /\ chatrooms'[r].messageCount >= chatrooms[r].messageCount
        /\ chatrooms'[r].viewCount >= chatrooms[r].viewCount
    ]_vars

(* C30 witness: at time 61 room 0, created at time 0, has been viewed and  *)
(* pinned, and a second room has been created after it; room 0 reads back  *)
(* the fields it was created with.                                         *)
C30_Witness ==
    /\ now = 61
    /\ DOMAIN chatrooms = {0, 1}
    /\ chatrooms[1].createdAt = 61
    /\ chatrooms[0].createdAt = 0
    /\ chatrooms[0].viewCount = 1
    /\ chatrooms[0].pinnedVideoId = Some(0)
    /\ chatrooms[0].topic = TopicMovie /\ chatrooms[0].category = CategoryFun
    /\ chatrooms[0].id = 0

(* Message m names a parent that is in the log of its own room. *)
ParentInRoomLog(m) ==
    /\ IsSome(m.replyToMessageId)
    /\ TheVal(m.replyToMessageId) \in LogIds(m.chatroomId)

(* C25 as claimed: every stored message with a replyToMessageId replies to *)
(* a message that is in the log of the same room.                          *)
C25_RepliesStayInRoom ==
    \A m \in StoredMessages : IsSome(m.replyToMessageId) => ParentInRoomLog(m)

(* C25 amended: sendMessage does not check the reply id.  Every stored     *)
(* message stays stored in its room with the replyToMessageId it has, a    *)
(* seed message has none, and a message whose parent is in the log of its  *)
(* room keeps its parent there.                                            *)
C25_ReplyParentNeverLost ==
    /\ [](\A m \in StoredMessages : m.senderId = "creator" => m.replyToMessageId = None)
    /\ [][\/ UNCHANGED messages
          \/ \A m \in StoredMessages :
                \E kept \in StoredMessages' :
                    /\ kept.id = m.id
                    /\ kept.chatroomId = m.chatroomId
                    /\ kept.replyToMessageId = m.replyToMessageId
                    /\ ParentInRoomLog(m) => ParentInRoomLog(kept)'
         ]_vars

(* C25 witness: room 1 holds a reply to message 0, which is the seed       *)
(* message of room 0; room 0 holds a reply to message 0 and a reply to     *)
(* that reply.                                                             *)
C25_Witness ==
    /\ last.op = "sendMessage" /\ last.err = Ok
    /\ \E m \in StoredMessages :
          m.chatroomId = 1 /\ m.replyToMessageId = Some(0) /\ ~ParentInRoomLog(m)
    /\ \E m, k \in StoredMessages :
          /\ m.chatroomId = 0 /\ m.replyToMessageId = Some(0) /\ m.id = 2
          /\ k.chatroomId = 0 /\ k.replyToMessageId = Some(2) /\ ParentInRoomLog(k)

(* The reaction table rs with the two identities exchanged: the table that *)
(* the same calls build when each is made by the other identity.           *)
OtherIdentity(u) == IF u = "u1" THEN "u2" ELSE "u1"
SwapIdentities(rs) ==
    [m \in DOMAIN rs |->
        [i \in 1..Len(rs[m]) |->
            [rs[m][i] EXCEPT !.users =
                [k \in 1..Len(rs[m][i].users) |-> OtherIdentity(rs[m][i].users[k])]]]]

(* What getReactions(m) returns when the reaction table is rs. *)
ReactionsView(rs, m) == IF m \in DOMAIN rs THEN ListToArray(rs[m]) ELSE <<>>

(* C26: getReactions(m) is the same in two states that differ only in      *)
(* which identities reacted: exchanging the identities in the table leaves *)
(* the result as it is.                                                    *)
C26_ReactionsHideIdentities ==
    \A m \in ReactionIds :
        ReactionsView(SwapIdentities(reactions), m) = getReactions(m)

(* The emoji of a list of reaction entries, in its order. *)
EmojiOrder(l) == [i \in 1..Len(l) |-> l[i].emoji]

(* C27: getReactions(m) lists the emoji in the order of their first         *)
(* reaction, earliest first: an addReaction of an emoji that m does not     *)
(* list yet puts it after the emoji that m lists, in their order.           *)
C27_EmojiInOrderOfFirstReaction ==
    [][\A m \in ReactionIds, e \in Emojis :
        (/\ last'.op = "addReaction"
         /\ last'.args[1] = m /\ last'.args[2] = e
         /\ EmojiView(reactions, m, e) = {})
        => EmojiOrder(getReactions(m))' = Append(EmojiOrder(getReactions(m)), e)
    ]_vars

(* The chatroom ids of the calls that are not ids of chatrooms. *)
UnknownRooms == (0..(RoomMaxRooms + 1)) \ DOMAIN chatrooms

(* C28: for a chatroom id that does not exist, getMessages, getReplies and *)
(* getMessageWithReactionsAndReplies return the empty list and             *)
(* getReplyPreview, getPinnedVideo and getChatroom return null.            *)
C28_ReadsOfUnknownRoomAreEmpty ==
    \A r \in UnknownRooms :
        /\ getMessages(r) = <<>>
        /\ getMessageWithReactionsAndReplies(r) = <<>>
        /\ getPinnedVideo(r) = None
        /\ getChatroom(r) = None
        /\ \A id \in 0..RoomMaxMessages :
              getReplies(r, id) = <<>> /\ getReplyPreview(r, id) = None

(* C28 witness: room 0 exists, has its seed message (of which the preview  *)
(* is not null) and a pin; a view of id 1, which does not exist, has just  *)
(* been turned away, and the reads of id 1 are empty.                      *)
C28_Witness ==
    /\ DOMAIN chatrooms = {0}
    /\ last.op = "incrementViewCount" /\ last.err = TrapNoChatroom /\ last.args[1] = 1
    /\ getPinnedVideo(0) = Some(0)
    /\ getReplyPreview(0, 0) # None
    /\ getReplyPreview(1, 0) = None
    /\ getMessages(1) = <<>>
    /\ getChatroom(1) = None

(* The walk-through's getChatroom(0), when room 0 exists. *)
RoomZero == TheVal(getChatroom(0))

(* What each call of the walk-through does. *)
C29_Steps ==
    \/ UNCHANGED Tables
    \/ /\ (Succeeded("createChatroom") /\ nextChatroomId = 0) =>
              /\ last'.ret = Some(0)
              /\ RoomZero'.messageCount = 1
              /\ UNCHANGED activeUsers
       /\ (/\ Succeeded("sendMessage")
           /\ last'.args = <<0, "u1", ContentHi>>
           /\ Len(getMessages(0)) = 1
           /\ IsSome(getChatroom(0)) /\ RoomZero.messageCount = 1) =>
              /\ Len(getMessages(0)') = 2
              /\ getMessages(0)'[1] = getMessages(0)[1]
              /\ getMessages(0)'[1].senderId = "creator"
              /\ getMessages(0)'[2].id = nextMessageId
              /\ getMessages(0)'[2].content = ContentHi
              /\ getMessages(0)'[2].sender = "Alice"
              /\ getMessages(0)'[2].senderId = "u1"
              /\ RoomZero'.messageCount = 2
              /\ PresenceTimes(0, "u1")' = {now'}
       /\ \A m \in MessageIds, e \in Emojis :
              (/\ Succeeded("addReaction")
               /\ last'.args = <<m, e, "u2">>
               /\ Len(getMessages(0)) = 2 /\ getMessages(0)[2].id = m
               /\ getReactions(m) = <<>>) =>
                  /\ Len(getReactions(m)') = 1
                  /\ getReactions(m)'[1].emoji = e
                  /\ getReactions(m)'[1].count = 1
                  /\ UNCHANGED activeUsers
       /\ (Succeeded("incrementViewCount") /\ last'.args = <<0, "u3">>) =>
              PresenceTimes(0, "u3")' = {now'}

(* C29: from the empty state, the first createChatroom returns 0 and room  *)
(* 0 then has messageCount 1; a message "hi" of "u1" sent to the room that *)
(* holds its seed makes getMessages(0) the seed followed by that message   *)
(* and messageCount 2; a first reaction e of "u2" to that message makes    *)
(* getReactions of it one entry, of emoji e and count 1; the message and   *)
(* the view of "u3" record their identities at the time of the call, and   *)
(* while both records are within 60 seconds getChatroom(0) has             *)
(* activeUserCount 2 and isLive; "u2" and the creator have no record.      *)
C29_WalkThrough ==
    /\ []((/\ IsSome(getChatroom(0))
           /\ PresenceTimes(0, "u1") # {} /\ PresenceTimes(0, "u3") # {}
           /\ \A t \in PresenceTimes(0, "u1") \cup PresenceTimes(0, "u3") :
                 now - t <= 60)
          => (RoomZero.activeUserCount = 2 /\ RoomZero.isLive))
    /\ [](PresenceTimes(0, "u2") = {} /\ PresenceTimes(0, "creator") = {})
    /\ [][C29_Steps]_vars

(* C29 witness: the walk-through is over and 60 seconds have gone by since *)
(* its first touch: room 0 holds the seed and the message of id 1, which   *)
(* has one reaction entry of count 1; the view has been counted, and       *)
(* getChatroom(0) has messageCount 2, activeUserCount 2 and isLive.        *)
C29_Witness ==
    /\ IsSome(getChatroom(0))
    /\ Len(getMessages(0)) = 2
    /\ getMessages(0)[1].senderId = "creator"
    /\ getMessages(0)[2].id = 1 /\ getMessages(0)[2].content = ContentHi
    /\ Len(getReactions(1)) = 1 /\ getReactions(1)[1].count = 1
    /\ RoomZero.viewCount = 1
    /\ RoomZero.messageCount = 2
    /\ PresenceTimes(0, "u1") = {0} /\ PresenceTimes(0, "u3") = {30}
    /\ now = 60
    /\ RoomZero.activeUserCount = 2 /\ RoomZero.isLive

(* The fields of a stored message, without the reactions of the feed. *)
MessageOf(v) ==
    [id |-> v.id, content |-> v.content, timestamp |-> v.timestamp,
     sender |-> v.sender, chatroomId |-> v.chatroomId, mediaUrl |-> v.mediaUrl,
     mediaType |-> v.mediaType, avatarUrl |-> v.avatarUrl, senderId |-> v.senderId,
     replyToMessageId |-> v.replyToMessageId]

(* C31: getMessageWithReactionsAndReplies(r) has the messages of           *)
(* getMessages(r), in the same order, and the reactions of each are what   *)
(* getReactions of its id returns in the same state, entry by entry.       *)
C31_FeedIsMessagesWithReactions ==
    \A r \in 0..FeedMaxRooms :
        LET feed == getMessageWithReactionsAndReplies(r)
        IN /\ Len(feed) = Len(getMessages(r))
           /\ \A i \in 1..Len(feed) :
                /\ MessageOf(feed[i]) = getMessages(r)[i]
                /\ feed[i].reactions = getReactions(feed[i].id)

(* C31 witness: room 0 holds two messages, the first of which has entries  *)
(* for two emojis in the feed and the second none.                         *)
C31_Witness ==
    LET feed == getMessageWithReactionsAndReplies(0)
    IN /\ Len(feed) = 2
       /\ feed[1].id = 0 /\ Len(feed[1].reactions) = 2
       /\ feed[2].id # 0 /\ feed[2].reactions = <<>>

(* The messages of room r with the given id. *)
InRoomWithId(r, id) == {m \in Range(chatroomMessages(r)) : m.id = id}

(* The first n characters of a text, all of it when it has no more. *)
FirstChars(text, n) == IF Len(text) <= n THEN text ELSE SubSeq(text, 1, n)

(* C32: getReplyPreview(r, id) is not null exactly when a message with     *)
(* that id is in room r's log; the preview then carries the id, the        *)
(* message's stored (current) sender, its mediaUrl as mediaThumbnail and   *)
(* as contentSnippet the first 100 characters of its content, the whole    *)
(* content when that has at most 100, with nothing appended.               *)
C32_ReplyPreviewOfRoomMessage ==
    \A r \in 0..2, id \in 0..(PreviewMaxMessages + 1) :
        /\ IsSome(getReplyPreview(r, id)) <=> InRoomWithId(r, id) # {}
        /\ \A m \in InRoomWithId(r, id) :
              LET preview == TheVal(getReplyPreview(r, id))
              IN /\ preview.messageId = id
                 /\ preview.sender = m.sender
                 /\ preview.mediaThumbnail = m.mediaUrl
                 /\ preview.contentSnippet = FirstChars(m.content, 100)

(* C32 witness: room 1 holds a message of 101 characters sent as "Alice"   *)
(* and since renamed; its preview has the new name and the first 100       *)
(* characters, room 0 gives null for its id, and the preview of room 0's   *)
(* seed message has the room's media as thumbnail.                         *)
C32_Witness ==
    /\ last.op = "updateUsernameRetroactively"
    /\ \E m \in Range(chatroomMessages(1)) :
          /\ m.content = Content101 /\ m.senderId = "u1"
          /\ TheVal(getReplyPreview(1, m.id)).sender = "Bob"
          /\ Len(TheVal(getReplyPreview(1, m.id)).contentSnippet) = 100
          /\ TheVal(getReplyPreview(1, m.id)).contentSnippet[100] = "x"
          /\ getReplyPreview(0, m.id) = None
    /\ IsSome(TheVal(getReplyPreview(0, 0)).mediaThumbnail)
    /\ \E m \in Range(chatroomMessages(0)) :
          m.content = Content100 /\ TheVal(getReplyPreview(0, m.id)).contentSnippet = Content100

(* C33: in every state, every chatroom has a message log, and the          *)
(* messageCount that getChatroom and getChatrooms report for it is the     *)
(* number of messages getMessages returns for it, the seed message         *)
(* included.                                                               *)
C33_MessageCountIsLogLength ==
    /\ DOMAIN messages = DOMAIN chatrooms
    /\ \A r \in DOMAIN chatrooms :
          TheVal(getChatroom(r)).messageCount = Len(getMessages(r))
    /\ \A i \in 1..Len(getChatrooms) :
          getChatrooms[i].messageCount = Len(getMessages(getChatrooms[i].id))

(* C33 witness: room 0 holds its seed message and a sent message, and its  *)
(* record has been rewritten by a view and, last, by a pin.                *)
C33_Witness ==
    /\ last.op = "pinVideo" /\ last.err = Ok
    /\ TheVal(getChatroom(0)).messageCount = 2 /\ Len(getMessages(0)) = 2
    /\ TheVal(getChatroom(0)).viewCount = 1
    /\ IsSome(getPinnedVideo(0))

(* The fields of a message that no rewrite targets. *)
FixedFields ==
    {"id", "chatroomId", "content", "timestamp", "senderId", "mediaUrl", "mediaType",
     "replyToMessageId"}

(* A step that sets field `field` of the messages of identity senderId to  *)
(* value and changes nothing else.                                         *)
RewritesOnly(field, senderId, value) ==
    /\ DOMAIN messages' = DOMAIN messages
    /\ \A r \in DOMAIN messages :
          /\ Len(messages'[r]) = Len(messages[r])
          /\ \A i \in 1..Len(messages[r]) :
                /\ \A f \in FixedFields \cup ({"sender", "avatarUrl"} \ {field}) :
                      messages'[r][i][f] = messages[r][i][f]
                /\ messages[r][i].senderId = senderId => messages'[r][i][field] = value
                /\ messages[r][i].senderId # senderId => messages'[r][i] = messages[r][i]
    /\ UNCHANGED <<chatrooms, activeUsers, reactions, nextMessageId, nextChatroomId, now>>

(* C34: updateUsernameRetroactively(s, n) sets the sender of the messages  *)
(* of identity s to n, and updateAvatarRetroactively(s, a) their avatarUrl *)
(* to a (null when a is null); every other field of every message, the    *)
(* length and order of every log, the chatrooms with their messageCount,   *)
(* the presence records and the reactions are as they were.                *)
C34_RewriteTouchesOneField ==
    [][/\ Succeeded("updateUsernameRetroactively") =>
            \A s \in {"u1", "creator"}, n \in SenderNames :
                last'.args = <<s, n>> => RewritesOnly("sender", s, n)
       /\ Succeeded("updateAvatarRetroactively") =>
            \A s \in {"u1", "creator"}, a \in Avatars :
                last'.args = <<s, a>> => RewritesOnly("avatarUrl", s, a)
    ]_vars

(* C34 witness: updateAvatarRetroactively("u1", null) has just run on a    *)
(* state in which a reply of "u1", renamed before, lies in room 1 after    *)
(* the seed message, a reaction and a presence record exist, and a message *)
(* of "u1" sent after the earlier rewrites still has the name it was sent  *)
(* with.                                                                   *)
C34_Witness ==
    /\ last.op = "updateAvatarRetroactively" /\ last.args = <<"u1", None>>
    /\ Len(getMessages(1)) = 2
    /\ getMessages(1)[2].senderId = "u1" /\ getMessages(1)[2].sender = "Bob"
    /\ getMessages(1)[2].replyToMessageId = Some(0)
    /\ getMessages(1)[2].avatarUrl = None
    /\ getMessages(1)[1].senderId = "creator"
    /\ Len(getMessages(0)) = 2 /\ getMessages(0)[2].sender = "Alice"
    /\ getReactions(0) # <<>>
    /\ PresenceTimes(1, "u1") # {}

(* C35: right after a successful createChatroom or sendMessage the message *)
(* it created has no reactions: getReactions of its id is empty and so is  *)
(* the reaction list of its entry in getMessageWithReactionsAndReplies,    *)
(* whatever calls came before, addReaction on ids not yet handed out       *)
(* included.                                                               *)
C35_NewMessageHasNoReactions ==
    [][(Succeeded("createChatroom") \/ Succeeded("sendMessage")) =>
          \A id \in 0..(FeedMaxMessages + 1) :
              id = nextMessageId =>
                  /\ getReactions(id)' = <<>>
                  /\ \A r \in 0..FeedMaxRooms :
                        \A i \in 1..Len(getMessageWithReactionsAndReplies(r)') :
                            getMessageWithReactionsAndReplies(r)'[i].id = id
                                => getMessageWithReactionsAndReplies(r)'[i].reactions = <<>>
    ]_vars

(* The stored messages of identity s all carry one display name. *)
OneName(s) ==
    \A m1, m2 \in StoredMessages :
        (m1.senderId = s /\ m2.senderId = s) => m1.sender = m2.sender

(* C36 as stated: in every reachable state, any two stored messages with   *)
(* the same senderId carry the same sender display name.                   *)
C36_OneNamePerIdentity == \A s \in {"u1", "creator"} : OneName(s)

(* C36 amended: a successful updateUsernameRetroactively(s, n) leaves the  *)
(* stored messages of s with the one name n; the names of the messages of  *)
(* an identity come to differ only by a successful sendMessage with that   *)
(* senderId, which stores the name it is given, or, for "creator", by a    *)
(* createChatroom, whose seed message is named "Creator".                  *)
C36_OneNameUntilSentUnderAnother ==
    [][\/ UNCHANGED messages
       \/ \A s \in {"u1", "creator"} :
            /\ (Succeeded("updateUsernameRetroactively") /\ last'.args[1] = s) =>
                  /\ OneName(s)'
                  /\ \A m \in StoredMessages' : m.senderId = s => m.sender = last'.args[2]
            /\ (OneName(s) /\ ~OneName(s)') =>
                  \/ Succeeded("sendMessage") /\ last'.args[2] = s
                  \/ Succeeded("createChatroom") /\ s = "creator"
    ]_vars

(* C36 witness: "u1" was renamed "Carol", a name no message is sent under, *)
(* and has just sent a message as "Alice": its two messages differ in name, *)
(* while the seed messages of two rooms agree.                             *)
C36_Witness ==
    /\ last.op = "sendMessage" /\ last.err = Ok /\ last.args[2] = "u1"
    /\ \E m1, m2 \in StoredMessages :
          /\ m1.senderId = "u1" /\ m1.sender = "Carol"
          /\ m2.senderId = "u1" /\ m2.sender = "Alice" /\ m2.id > m1.id
    /\ ~OneName("u1")
    /\ OneName("creator")

(* The lists that a presence list can have become, at time t, in a run     *)
(* that differs by sweeps: the list without any of its records that are    *)
(* more than 60 seconds old at t, the others in place.                     *)
Thinnings(users, t) ==
    {SelectSeq(users, LAMBDA rec : rec \notin dropped) :
        dropped \in SUBSET {rec \in Range(users) : t - rec.lastActive > 60}}

(* List thin is one of Thinnings(users, t). *)
IsThinning(thin, users, t) ==
    /\ thin = SelectSeq(users, LAMBDA rec : rec \in Range(thin))
    /\ \A rec \in Range(users) \ Range(thin) : t - rec.lastActive > 60

(* The number of records of a presence list within 60 seconds of time t. *)
ActiveCount(users, t) == Len(SelectSeq(users, LAMBDA rec : WithinWindow(rec, t)))

(* The clock advances tried from each state. *)
Delays == {0, 1, 60, 61}

(* C37: the sweep is invisible to readers.  A successful                   *)
(* cleanupInactiveUsers changes no result of getChatroom or getChatrooms   *)
(* at the time of the call and writes no table but the presence table (the *)
(* other tables evolve without reading it); and at any later time the      *)
(* results are those of the run without the call: the swept list of a room *)
(* is a thinning of the unswept one, a list and any thinning of it give    *)
(* the same activeUserCount, and they stay list and thinning when the      *)
(* clock advances, when an identity touches the room and when a sweep      *)
(* runs.                                                                   *)
C37_SweepIsInvisible ==
    /\ [](\A r \in DOMAIN activeUsers :
            /\ IsThinning(sweptActiveUsers(now)[r], activeUsers[r], now)
            /\ r \in DOMAIN chatrooms =>
                  /\ TheVal(getChatroom(r)).activeUserCount = ActiveCount(activeUsers[r], now)
                  /\ \A i \in 1..Len(getChatrooms) :
                        getChatrooms[i].id = r =>
                            getChatrooms[i].activeUserCount = ActiveCount(activeUsers[r], now)
            /\ \A thin \in Thinnings(activeUsers[r], now) :
                  /\ ActiveCount(thin, now) = ActiveCount(activeUsers[r], now)
                  /\ \A d \in Delays :
                        /\ IsThinning(thin, activeUsers[r], now + d)
                        /\ \A u \in Identities :
                              IsThinning(updatedActiveUsers(thin, u, now + d),
                                         updatedActiveUsers(activeUsers[r], u, now + d),
                                         now + d)
                        /\ IsThinning(SelectSeq(thin, LAMBDA rec : isActive(now + d, rec)),
                                      SelectSeq(activeUsers[r],
                                                LAMBDA rec : isActive(now + d, rec)),
                                      now + d))
    /\ [][Succeeded("cleanupInactiveUsers") =>
            /\ getChatrooms' = getChatrooms
            /\ \A r \in 0..2 : getChatroom(r)' = getChatroom(r)
            /\ UNCHANGED <<chatrooms, messages, reactions, nextMessageId, nextChatroomId, now>>
       ]_vars

(* C37 witness: a sweep at time 61 has just emptied the presence list of a *)
(* room touched at time 0 only, whose view was and is not live, while the  *)
(* other room, touched less than 60 seconds ago, is live.                  *)
C37_Witness ==
    /\ last.op = "cleanupInactiveUsers" /\ last.err = Ok
    /\ now = 61
    /\ \E r, q \in DOMAIN chatrooms :
          /\ r \in DOMAIN activeUsers /\ activeUsers[r] = <<>>
          /\ TheVal(getChatroom(r)).messageCount = 2
          /\ ~TheVal(getChatroom(r)).isLive
          /\ TheVal(getChatroom(q)).isLive

(* The calls that touch the room of their first argument. *)
TouchOps == {"sendMessage", "incrementViewCount"}

(* C38: a sendMessage or incrementViewCount on room a leaves the presence  *)
(* records, and with them the isLive and activeUserCount, of every other   *)
(* room as they were; a room's list gets a record only by a successful     *)
(* sendMessage or incrementViewCount on that room; createChatroom,         *)
(* addReaction, removeReaction, pinVideo, unpinVideo and the two rewrites  *)
(* leave the presence table as it was.                                     *)
C38_PresenceIsolatedPerRoom ==
    [][/\ last'.op \in TouchOps =>
            \A b \in 0..IsoMaxRooms :
                b # last'.args[1] =>
                    /\ activeUsersForRoom(b)' = activeUsersForRoom(b)
                    /\ IsSome(getChatroom(b)) =>
                          /\ TheVal(getChatroom(b))'.isLive = TheVal(getChatroom(b)).isLive
                          /\ TheVal(getChatroom(b))'.activeUserCount
                                = TheVal(getChatroom(b)).activeUserCount
       /\ \A r \in 0..IsoMaxRooms :
            ~(Range(activeUsersForRoom(r)') \subseteq Range(activeUsersForRoom(r))) =>
                /\ last'.op \in TouchOps /\ last'.err = Ok
                /\ last'.args[1] = r
       /\ last'.op \in {"createChatroom", "addReaction", "removeReaction", "pinVideo",
                        "unpinVideo", "updateUsernameRetroactively",
                        "updateAvatarRetroactively"} =>
            UNCHANGED activeUsers
    ]_vars

(* C38 witness: room 1 has just been touched by a message at time 61; room *)
(* 0, viewed at time 0, keeps its record and is not live, and room 1 is.   *)
C38_Witness ==
    /\ last.op = "sendMessage" /\ last.err = Ok /\ last.args[1] = 1
    /\ now = 61
    /\ PresenceTimes(0, "u2") = {0} /\ PresenceTimes(0, "u1") = {}
    /\ PresenceTimes(1, "u1") = {61}
    /\ ~TheVal(getChatroom(0)).isLive
    /\ TheVal(getChatroom(1)).isLive

(* The entries of a reaction list for the emojis other than emoji, in the  *)
(* order of the list.                                                      *)
OtherEntries(l, emoji) == SelectSeq(l, LAMBDA entry : entry.emoji # emoji)

(* C39: addReaction(m, e, u) and removeReaction(m, e, u) leave the         *)
(* reactions of every other message as they were, and on m leave the       *)
(* entries of the other emojis as they were: their counts, their           *)
(* identities and their order among themselves.                            *)
C39_ReactionTouchesOneEntry ==
    [][\A m \in ReactionIds, e \in EmojisThree, u \in Identities :
          (last'.op \in {"addReaction", "removeReaction"} /\ last'.args = <<m, e, u>>) =>
              /\ \A other \in ReactionIds \ {m} :
                    /\ natMapGet(reactions, other)' = natMapGet(reactions, other)
                    /\ getReactions(other)' = getReactions(other)
              /\ OtherEntries(getReactions(m)', e) = OtherEntries(getReactions(m), e)
    ]_vars

(* C39 witness: message 0 has entries for three emojis, one of them with   *)
(* two identities, and message 1 has an entry; the last call was about an  *)
(* entry of message 0 that is neither the first nor the last of its list.  *)
C39_Witness ==
    /\ last.op \in {"addReaction", "removeReaction"}
    /\ last.args[1] = 0
    /\ Len(getReactions(0)) = 3
    /\ getReactions(0)[2].emoji = last.args[2]
    /\ \E i \in 1..3 : Len(getReactions(0)[i].users) = 2
    /\ Len(getReactions(1)) = 1

(* Every read of room r reports it not live, with no active user. *)
NotLive(r) ==
    /\ ~TheVal(getChatroom(r)).isLive
    /\ TheVal(getChatroom(r)).activeUserCount = 0
    /\ \A i \in 1..Len(getChatrooms) :
          getChatrooms[i].id = r =>
              ~getChatrooms[i].isLive /\ getChatrooms[i].activeUserCount = 0

(* A successful sendMessage or incrementViewCount on room r. *)
TouchOf(r) == last'.op \in TouchOps /\ last'.err = Ok /\ last'.args[1] = r

(* C40: with a clock that keeps advancing, a room that from some point on  *)
(* is not touched by a successful sendMessage or incrementViewCount is     *)
(* from some point on reported not live, with activeUserCount 0, by        *)
(* getChatroom and getChatrooms, whether or not the sweep runs; and a room *)
(* reported not live stays so until the next such call on it.              *)
C40_LivenessExpires ==
    /\ \A r \in {0, 1} : <>[][~TouchOf(r)]_vars => <>[]NotLive(r)
    /\ [][\A r \in {0, 1} : (NotLive(r) /\ ~NotLive(r)') => TouchOf(r)]_vars

(* C40 witness: room 0, touched at time 60 by a message and live then, is  *)
(* read at time 121: its record is still in the presence list, no sweep    *)
(* having dropped it, and it is reported not live.                         *)
C40_Witness ==
    /\ now = 121
    /\ PresenceTimes(0, "u1") = {60}
    /\ Len(activeUsersForRoom(0)) >= 1
    /\ NotLive(0)

====
